---- MODULE Spec2Model ----
(***************************************************************************)
(* Guarded execution core of the WorkElate agent: the repair cascade       *)
(* (app/llm/router.py, app/llm/json_parse.py) and the step executor        *)
(* (app/agent/executor.py).                                                *)
(*                                                                         *)
(* Data representation.                                                    *)
(*  - A Python str is a sequence of tokens (each token a TLA+ string): a   *)
(*    word, a punctuation mark, a blank " " or a newline "\n".  Two word   *)
(*    tokens are never adjacent.  strip(), lower(), splitlines(), prefix   *)
(*    and substring tests are computed on the tokens.                      *)
(*  - A JSON / Python value is a one-field record whose field name is its  *)
(*    type: [str |-> s], [num |-> n], [null |-> TRUE], [list |-> seq],     *)
(*    [dict |-> f] with f a function from keys to values.                  *)
(***************************************************************************)
EXTENDS Integers, Sequences, FiniteSets, TLC

(* ------------------------------------------------------------------ *)
(* Python values                                                       *)
(* ------------------------------------------------------------------ *)
JStr(s) == [str |-> s]

JNum(n) == [num |-> n]

JNull == [null |-> TRUE]

JList(xs) == [list |-> xs]

JDict(f) == [dict |-> f]

IsStr(v) == DOMAIN v = {"str"}

IsNum(v) == DOMAIN v = {"num"}

IsNull(v) == DOMAIN v = {"null"}

IsList(v) == DOMAIN v = {"list"}

IsDict(v) == DOMAIN v = {"dict"}

EmptyDict == [k \in {} |-> JNull]

\* dict.get(k, default)
Get(d, k, default) == IF k \in DOMAIN d THEN d[k] ELSE default

\* Python truthiness (the `x or y` and `if not x` tests)
Truthy(v) ==
    IF IsStr(v) THEN v.str # <<>>
    ELSE IF IsNum(v) THEN v.num # 0
    ELSE IF IsNull(v) THEN FALSE
    ELSE IF IsList(v) THEN v.list # <<>>
    ELSE DOMAIN v.dict # {}

\* x or y
PyOr(x, y) == IF Truthy(x) THEN x ELSE y

\* str(v): a str is itself; a number is its digits; None is "None"; a list
\* or a dict is its repr, kept as one opaque non-blank token.
PyStr(v) ==
    IF IsStr(v) THEN v.str
    ELSE IF IsNum(v) THEN <<ToString(v.num)>>
    ELSE IF IsNull(v) THEN <<"None">>
    ELSE IF IsList(v) THEN <<"[list]">>
    ELSE <<"{dict}">>

(* ------------------------------------------------------------------ *)
(* str operations on token sequences                                   *)
(* ------------------------------------------------------------------ *)
WS == {" ", "\n"}

SetMin(S) == CHOOSE x \in S : \A y \in S : x <= y

SetMax(S) == CHOOSE x \in S : \A y \in S : x >= y

\* str.strip()
Strip(s) ==
    LET keep == {i \in 1..Len(s) : s[i] \notin WS}
    IN  IF keep = {} THEN <<>> ELSE SubSeq(s, SetMin(keep), SetMax(keep))

\* lower-case form of the tokens of the vocabulary that hold capitals
LowerTok(t) ==
    CASE t = "Clarify:" -> "clarify:"
      [] t = "CLARIFY:" -> "clarify:"
      [] t = "TBD" -> "tbd"
      [] t = "Tbd" -> "tbd"
      [] t = "Lorem" -> "lorem"
      [] t = "Bullet" -> "bullet"
      [] t = "Integration" -> "integration"
      [] t = "Context" -> "context"
      [] t = "Questions" -> "questions"
      [] t = "Plan" -> "plan"
      [] t = "Mobile" -> "mobile"
      [] t = "Fitness" -> "fitness"
      [] t = "E-commerce" -> "e-commerce"
      [] t = "CRM" -> "crm"
      [] t = "Output" -> "output"
      [] t = "Document" -> "document"
      [] t = "None" -> "none"
      [] t = "Q1" -> "q1"
      [] t = "Q2" -> "q2"
      [] t = "Q3" -> "q3"
      [] t = "Q4" -> "q4"
      [] t = "Q5" -> "q5"
      [] t = "Q6" -> "q6"
      [] OTHER -> t

\* str.lower()
Lower(s) == [i \in 1..Len(s) |-> LowerTok(s[i])]

\* the lines of str.splitlines()
RECURSIVE SplitLines(_)
SplitLines(s) ==
    IF s = <<>> THEN <<>>
    ELSE LET nls == {i \in 1..Len(s) : s[i] = "\n"}
         IN  IF nls = {} THEN <<s>>
             ELSE LET i == SetMin(nls)
                  IN  <<SubSeq(s, 1, i - 1)>> \o SplitLines(SubSeq(s, i + 1, Len(s)))

\* "\n".join(lines)
RECURSIVE JoinLines(_)
JoinLines(ls) ==
    IF ls = <<>> THEN <<>>
    ELSE IF Len(ls) = 1 THEN ls[1]
    ELSE ls[1] \o <<"\n">> \o JoinLines(Tail(ls))

\* the elements of a sequence that satisfy a test, in order
RECURSIVE SelectStr(_)
SelectStr(xs) ==
    IF xs = <<>> THEN <<>>
    ELSE IF Strip(PyStr(Head(xs))) # <<>>
         THEN <<JStr(PyStr(Head(xs)))>> \o SelectStr(Tail(xs))
         ELSE SelectStr(Tail(xs))

Range(f) == {f[x] : x \in DOMAIN f}

\* the part of s before the first token sep (s.split(sep)[0])
Before(s, sep) ==
    LET at == {i \in 1..Len(s) : s[i] = sep}
    IN  IF at = {} THEN s ELSE SubSeq(s, 1, SetMin(at) - 1)

\* s[:n]
Take(s, n) == SubSeq(s, 1, IF Len(s) < n THEN Len(s) ELSE n)

(* ------------------------------------------------------------------ *)
(* app/agent/executor.py: constants and pure helpers                    *)
(* ------------------------------------------------------------------ *)
ALLOWED_TOOLS == {"doc_write", "metrics_generate"}

ALLOWED_DOC_TYPES ==
    {"prd", "gtm", "integration_plan", "test_plan", "checklist", "roadmap",
     "kpi_doc", "runbook", "generic", "spec", "risk_register", "user_research",
     "onboarding"}

\* a cap that lets one more item through
ClarifyCapPlusOne == 6 + 1

\* assumptions[:6], constraints[:6]
ClarifyCap == 6

\* _safe_jsonable: every value of the model is JSON-serialisable
SafeJsonable(v) == v

ClarifyTitle(step_title) ==
    LET st == Strip(step_title)
    IN  IF Len(st) >= 1 /\ LowerTok(st[1]) = "clarify:"
        THEN st
        ELSE <<"Clarify:", " ">> \o st

\* a normalisation that splits at | only
NormalizeToolNamePipeOnly(tool_name) ==
    IF ~IsStr(tool_name) THEN "doc_write"
    ELSE LET t0 == Strip(tool_name.str)
             t1 == IF \E i \in 1..Len(t0) : t0[i] = "|"
                   THEN Strip(Before(t0, "|")) ELSE t0
         IN  IF Len(t1) >= 1 /\ t1[1] \in ALLOWED_TOOLS THEN t1[1] ELSE "doc_write"

NormalizeToolName(tool_name) ==
    IF ~IsStr(tool_name) THEN "doc_write"
    ELSE LET t0 == Strip(tool_name.str)
             t1 == IF \E i \in 1..Len(t0) : t0[i] = "|"
                   THEN Strip(Before(t0, "|")) ELSE t0
             t2 == IF \E i \in 1..Len(t1) : t1[i] = ","
                   THEN Strip(Before(t1, ",")) ELSE t1
         IN  IF Len(t2) = 1 /\ t2[1] \in ALLOWED_TOOLS THEN t2[1] ELSE "doc_write"

\* inspect.signature(tool).parameters.keys(): doc_write(title, content,
\* doc_type, context); metrics_generate(**kwargs) has the one parameter kwargs
SigParams(tool) ==
    IF tool = "doc_write" THEN {"title", "content", "doc_type", "context"}
    ELSE {"kwargs"}

\* _clean_args_for_tool; args is any value, the result a dict
CleanArgsForTool(tool, args) ==
    IF ~IsDict(args)
    THEN [title |-> JStr(<<"Output">>), content |-> JStr(PyStr(args))]
    ELSE LET valid_params == SigParams(tool)
         IN  IF valid_params = {} THEN args.dict
             ELSE [k \in (DOMAIN args.dict) \cap valid_params |-> args.dict[k]]

ExtractGoalFromContext(ctx) ==
    LET goal == Get(ctx, "task_goal", JNull)
    IN  IF IsStr(goal) THEN Strip(goal.str) ELSE <<>>

\* "- x" lines of the given items, or "- (not provided)"
Bullets(items) ==
    IF items = <<>> THEN <<"-", " ", "(not provided)">>
    ELSE JoinLines([i \in 1..Len(items) |-> <<"-", " ">> \o PyStr(items[i])])

\* the six fixed questions, each kept as one token
Questions == <<"Q1", "Q2", "Q3", "Q4", "Q5", "Q6">>

MakeClarifyDoc(step_title, task_goal, assumptions, constraints) ==
    LET goal_line == IF Strip(task_goal) # <<>> THEN Strip(task_goal) ELSE <<"(missing)">>
        a == Take(assumptions, ClarifyCap)
        c == Take(constraints, ClarifyCap)
        q_md == JoinLines([i \in 1..Len(Questions) |-> <<"-", " ", Questions[i]>>])
    IN  <<"#", " ">> \o ClarifyTitle(step_title)
        \o <<"\n", "\n", "##", " ", "Context", "\n">>
        \o <<"-", " ", "**task_goal:**", " ">> \o goal_line \o <<"\n">>
        \o <<"-", " ", "**assumptions:**", "\n">> \o Bullets(a) \o <<"\n">>
        \o <<"-", " ", "**constraints:**", "\n">> \o Bullets(c) \o <<"\n", "\n">>
        \o <<"##", " ", "Why", " ", "asking", "\n", "(why-text)", "\n", "\n">>
        \o <<"##", " ", "Questions", "\n">> \o q_md \o <<"\n">>

\* an enforcer that keeps whatever doc_type it is given and does not strip
\* the title
EnsureDocWriteArgsSchemaAnyDocType(args) ==
    LET t0 == PyStr(PyOr(Get(args, "title", JNull), JStr(<<"Document">>)))
        c0 == Get(args, "content", JNull)
        content == IF IsStr(c0) THEN c0.str
                   ELSE IF IsNull(c0) THEN <<>> ELSE PyStr(c0)
        d0 == Strip(PyStr(PyOr(Get(args, "doc_type", JNull), JStr(<<"generic">>))))
        c1 == Get(args, "context", JNull)
        ctx == IF IsDict(c1) THEN c1.dict ELSE EmptyDict
        task_goal == Strip(PyStr(PyOr(Get(ctx, "task_goal", JNull), JStr(<<>>))))
        a0 == Get(ctx, "assumptions", JNull)
        k0 == Get(ctx, "constraints", JNull)
    IN  [title |-> JStr(t0), content |-> JStr(content),
         doc_type |-> JStr(IF d0 = <<>> THEN <<"generic">> ELSE d0),
         context |-> JDict([task_goal |-> JStr(task_goal),
                            assumptions |-> JList(SelectStr(IF IsList(a0) THEN a0.list ELSE <<>>)),
                            constraints |-> JList(SelectStr(IF IsList(k0) THEN k0.list ELSE <<>>))])]

\* an enforcer that fills in the defaults and keeps the lists it was given
EnsureDocWriteArgsSchemaKeepLists(args) ==
    LET c1 == Get(args, "context", JNull)
        ctx == IF IsDict(c1) THEN c1.dict ELSE EmptyDict
        a0 == Get(ctx, "assumptions", JNull)
        k0 == Get(ctx, "constraints", JNull)
    IN  [title |-> JStr(<<"Document">>), content |-> JStr(<<>>),
         doc_type |-> JStr(<<"generic">>),
         context |-> JDict([task_goal |-> JStr(<<>>),
                            assumptions |-> IF IsList(a0) THEN a0 ELSE JList(<<>>),
                            constraints |-> IF IsList(k0) THEN k0 ELSE JList(<<>>)])]

\* _ensure_doc_write_args_schema; args is a dict, the result a dict
EnsureDocWriteArgsSchema(args) ==
    LET t0 == Strip(PyStr(PyOr(Get(args, "title", JNull), JStr(<<"Document">>))))
        title == IF t0 = <<>> THEN <<"Document">> ELSE t0
        c0 == Get(args, "content", JNull)
        content == IF IsStr(c0) THEN c0.str
                   ELSE IF IsNull(c0) THEN <<>> ELSE PyStr(c0)
        d0 == Strip(PyStr(PyOr(Get(args, "doc_type", JNull), JStr(<<"generic">>))))
        d1 == IF d0 = <<>> THEN <<"generic">> ELSE d0
        doc_type == IF Len(d1) = 1 /\ d1[1] \in ALLOWED_DOC_TYPES THEN d1 ELSE <<"generic">>
        c1 == Get(args, "context", JNull)
        ctx == IF IsDict(c1) THEN c1.dict ELSE EmptyDict
        task_goal == Strip(PyStr(PyOr(Get(ctx, "task_goal", JNull), JStr(<<>>))))
        a0 == Get(ctx, "assumptions", JNull)
        assumptions == IF IsList(a0) THEN a0.list ELSE <<>>
        k0 == Get(ctx, "constraints", JNull)
        constraints == IF IsList(k0) THEN k0.list ELSE <<>>
        ctx_fixed == [task_goal |-> JStr(task_goal),
                      assumptions |-> JList(SelectStr(assumptions)),
                      constraints |-> JList(SelectStr(constraints))]
    IN  [title |-> JStr(title), content |-> JStr(content),
         doc_type |-> JStr(doc_type), context |-> JDict(ctx_fixed)]

(* ------------------------------------------------------------------ *)
(* app/agent/executor.py: guardrails                                    *)
(* ------------------------------------------------------------------ *)
\* _PLACEHOLDER_PATTERNS that one lower-case token matches: a bracket group
\* "[insert...]" is one token, named by its first word
PlaceholderAtoms ==
    {"[insert]", "[target]", "[assumption]", "[constraint]", "[estimated]", "tbd"}

\* a placeholder check without the lower() of line 122
ContainsPlaceholdersCaseSensitive(text) ==
    \E i \in 1..Len(text) : text[i] \in PlaceholderAtoms

ContainsPlaceholders(text) ==
    LET low == Lower(text)
        n == Len(low)
    IN  \/ \E i \in 1..n : low[i] \in PlaceholderAtoms
        \/ \E i \in 1..n : /\ i + 2 <= n
                           /\ low[i] = "lorem" /\ low[i + 1] = " " /\ low[i + 2] = "ipsum"
        \/ \E i \in 1..n : \E j \in (i + 1)..n :
              /\ low[i] = "bullet"
              /\ low[j] \in {"1", "2", "3"}
              /\ \A k \in (i + 1)..(j - 1) : low[k] \in WS

\* a header test that looks for first-level headers
IsHeaderFirstLevel(ln) == Len(ln) >= 2 /\ ln[1] = "#" /\ ln[2] = " "

\* a stripped line that starts with "## "
IsHeader(ln) == Len(ln) >= 2 /\ ln[1] = "##" /\ ln[2] = " "

DuplicateHeaders(text) ==
    LET lines == SplitLines(text)
        hs == {i \in 1..Len(lines) : IsHeader(Strip(lines[i]))}
    IN  \E i \in hs : \E j \in hs : i < j /\ Strip(lines[i]) = Strip(lines[j])

DRIFT_TOKENS ==
    {<<"e-commerce">>, <<"ecommerce">>, <<"crm">>, <<"law", " ", "firm">>,
     <<"law", " ", "firms">>, <<"compliance">>, <<"hr">>, <<"ats">>, <<"resume">>,
     <<"logistics">>, <<"gaming">>, <<"order", " ", "management">>, <<"inventory">>,
     <<"billing">>}

\* key occurs inside the token w (the tokens of the vocabulary that hold a
\* drift keyword as a proper substring are listed)
InfixOf(key, w) == key = w \/ <<key, w>> \in {<<"hr", "three">>, <<"ats", "stats">>}

PrefixOf(key, w) == key = w \/ <<key, w>> \in {<<"firm", "firms">>}

\* `tok in text` for a drift keyword tok
KeyIn(tok, text) ==
    LET m == Len(tok)
    IN  \E i \in 1..Len(text) :
          /\ i + m - 1 <= Len(text)
          /\ IF m = 1 THEN InfixOf(tok[1], text[i])
             ELSE /\ tok[1] = text[i]
                  /\ \A j \in 2..(m - 1) : tok[j] = text[i + j - 1]
                  /\ PrefixOf(tok[m], text[i + m - 1])

\* the words [a-z0-9]+ of length >= 4 that one lower-case token holds
WordsOfTok(t) ==
    CASE t \in {"mobile", "fitness", "plan", "three", "stats", "ecommerce",
                "compliance", "resume", "logistics", "gaming", "inventory",
                "billing", "management", "order", "firm", "firms", "integration",
                "context", "questions", "output", "document", "none", "tracker",
                "workout", "coaching", "asking", "lorem", "ipsum", "bullet",
                "onboarding", "checklist", "users", "retention"} -> {t}
      [] t = "e-commerce" -> {"commerce"}
      [] t = "clarify:" -> {"clarify"}
      [] t = "**task_goal:**" -> {"task", "goal"}
      [] t = "**assumptions:**" -> {"assumptions"}
      [] t = "**constraints:**" -> {"constraints"}
      [] t = "(missing)" -> {"missing"}
      [] t = "(not provided)" -> {"provided"}
      [] t = "(why-text)" -> {"accurate", "below", "details", "domain", "drifting",
                              "from", "goal", "guessing", "keep", "need", "output",
                              "previous", "risked", "step", "this"}
      [] t = "q1" -> {"category", "exact", "goal", "persona", "product", "target",
                      "this", "user", "what"}
      [] t = "q2" -> {"pain", "pains", "point", "secondary", "solving", "what"}
      [] t = "q3" -> {"activation", "event", "must", "primary", "user", "value", "what"}
      [] t = "q4" -> {"business", "enterprise", "expected", "free", "freemium",
                      "model", "pricing", "range", "subscription", "what"}
      [] t = "q5" -> {"analytics", "apple", "devices", "google", "have",
                      "integrations", "must", "stack", "stripe", "wearable"}
      [] t = "q6" -> {"geography", "launch", "month", "retention", "revenue",
                      "success", "target", "users", "what"}
      [] OTHER -> {}

\* {w for w in re.findall(r"[a-z0-9]+", text) if len(w) >= 4}
WordsOf(text) == UNION {WordsOfTok(text[i]) : i \in 1..Len(text)}

\* the overlap below which drift is suspected
MinOverlap == 2

\* a drift check that never looks at the step title
LikelyDomainDriftNoTitle(task_goal, step_title, content) ==
    LET goal == Lower(task_goal)
        out == Lower(content)
        goal_words == WordsOf(goal)
        out_words == WordsOf(out)
    IN  IF Strip(goal) = <<>> THEN FALSE
        ELSE IF \E tok \in DRIFT_TOKENS : KeyIn(tok, out) /\ ~KeyIn(tok, goal) THEN TRUE
        ELSE Cardinality(goal_words \cap out_words) < MinOverlap

LikelyDomainDrift(task_goal, step_title, content) ==
    LET goal == Lower(task_goal)
        out == Lower(content)
        goal_words == WordsOf(goal)
        out_words == WordsOf(out)
        st_words == WordsOf(Lower(step_title))
    IN  IF Strip(goal) = <<>> THEN FALSE
        ELSE IF \E tok \in DRIFT_TOKENS : KeyIn(tok, out) /\ ~KeyIn(tok, goal) THEN TRUE
        ELSE IF goal_words = {} THEN TRUE
        ELSE IF Cardinality(goal_words \cap out_words) < MinOverlap
             THEN Cardinality(goal_words \cap (st_words \cup out_words)) < MinOverlap
             ELSE FALSE

(* ------------------------------------------------------------------ *)
(* Representative inputs                                               *)
(* ------------------------------------------------------------------ *)
GoalFit == <<"mobile", " ", "fitness", " ", "app">>

ContentGood == <<"plan", " ", "mobile", " ", "fitness">>

ContentModel == <<"workout", " ", "plan">>

\* a goal with one word of length >= 4
GoalThin == <<"fitness", " ", "app">>

\* the members of the JSON objects the completion endpoint may send, by name
Members(b) ==
    CASE b = "doc" ->
           [tool |-> JStr(<<"doc_write">>),
            args |-> JDict([title |-> JStr(<<"Plan">>),
                            content |-> JStr(ContentGood),
                            doc_type |-> JStr(<<"prd">>),
                            context |-> JDict([task_goal |-> JStr(GoalFit),
                                               assumptions |-> JList(<<JStr(<<"users">>), JStr(<<" ">>), JNum(7)>>),
                                               constraints |-> JNull]),
                            extra |-> JNum(1)]),
            decision |-> JStr(<<"write">>),
            reason |-> JStr(<<"because">>),
            confidence |-> JNum(80)]
      [] b = "docnogoal" ->
           [tool |-> JStr(<<" ", "doc_write", " ">>),
            args |-> JDict([title |-> JNull,
                            content |-> JStr(ContentModel),
                            doc_type |-> JStr(<<"memo">>),
                            context |-> JStr(<<"none">>)]),
            confidence |-> JNum(60)]
      [] b = "docthin" ->
           [tool |-> JStr(<<"doc_write">>),
            args |-> JDict([title |-> JStr(<<"Plan">>),
                            content |-> JStr(ContentGood),
                            context |-> JDict([task_goal |-> JStr(GoalThin)])]),
            confidence |-> JNum(80)]
      [] b = "met" ->
           [tool |-> JStr(<<"metrics_generate">>),
            args |-> JDict([task_goal |-> JStr(GoalFit), stage |-> JStr(<<"growth">>)]),
            decision |-> JStr(<<"measure">>),
            confidence |-> JNum(70)]
      [] b = "metctx" ->
           [tool |-> JStr(<<"metrics_generate">>),
            args |-> JDict([title |-> JStr(<<"Plan">>),
                            content |-> JStr(ContentGood),
                            context |-> JDict([task_goal |-> JStr(GoalFit)])]),
            confidence |-> JNum(70)]
      [] b = "multi" ->
           [tool |-> JStr(<<"metrics_generate", "|", "doc_write">>),
            args |-> JStr(<<"stats">>)]
      [] b = "heal" ->
           [args |-> JDict([title |-> JStr(<<"Plan">>),
                            content |-> JStr(ContentModel),
                            context |-> JDict([task_goal |-> JStr(GoalFit)])])]
      [] b = "healthin" ->
           [args |-> JDict([title |-> JStr(<<"Plan">>),
                            content |-> JStr(ContentModel),
                            context |-> JDict([task_goal |-> JStr(GoalThin),
                                               assumptions |-> JList(<<JStr(<<"retention">>)>>)])])]
      [] b = "healnogoal" ->
           [args |-> JDict([title |-> JStr(<<"Plan">>), content |-> JStr(ContentModel)])]
      [] b = "healstr" ->
           [args |-> JStr(<<"three">>)]
      [] b = "refl" ->
           [quality_score |-> JNum(1), improvement |-> JStr(<<"none">>)]

Bodies ==
    {"doc", "docnogoal", "docthin", "met", "metctx", "multi", "heal", "healthin", "healnogoal",
     "healstr", "refl"}

(* ------------------------------------------------------------------ *)
(* app/llm/json_parse.py                                               *)
(* A response is a sequence of the tokens "{", "}", "[", "]", a body    *)
(* (the members of one object), prose "x" and blanks.                  *)
(* ------------------------------------------------------------------ *)
ParseOk(v) == [ok |-> TRUE, val |-> v]

ParseErr == [ok |-> FALSE, val |-> JNull]

\* json.loads: one object or one array, blanks around it allowed
RECURSIVE JsonLoads(_)
JsonLoads(c) ==
    LET t == Strip(c)
        n == Len(t)
    IN  IF n = 2 /\ t[1] = "{" /\ t[2] = "}" THEN ParseOk(JDict(EmptyDict))
        ELSE IF n = 3 /\ t[1] = "{" /\ t[2] \in Bodies /\ t[3] = "}"
             THEN ParseOk(JDict(Members(t[2])))
        ELSE IF n >= 2 /\ t[1] = "[" /\ t[n] = "]"
             THEN LET inner == Strip(SubSeq(t, 2, n - 1))
                  IN  IF inner = <<>> THEN ParseOk(JList(<<>>))
                      ELSE LET r == JsonLoads(inner)
                           IN  IF r.ok THEN ParseOk(JList(<<r.val>>)) ELSE ParseErr
        ELSE ParseErr

\* extract_json: ParseErr stands for the ValueError / JSONDecodeError raised
ExtractJson(text) ==
    LET c0 == Strip(text)
        opens == {i \in 1..Len(c0) : c0[i] \in {"{", "["}}
        candidate == IF c0 # <<>> /\ c0[1] \in {"{", "["} THEN c0
                     ELSE IF opens = {} THEN <<>>
                     ELSE Strip(SubSeq(c0, SetMin(opens), Len(c0)))
        closes == {i \in 1..Len(candidate) : candidate[i] \in {"}", "]"}}
    IN  IF opens = {} THEN ParseErr
        ELSE IF JsonLoads(candidate).ok THEN JsonLoads(candidate)
        ELSE IF closes # {} THEN JsonLoads(SubSeq(candidate, 1, SetMax(closes)))
        ELSE ParseErr

\* the texts the completion endpoint may answer with
FailingResponses == {<<"x">>, <<"{", "doc">>, <<"[", "]">>}

\* the objects sent in answer to the executor prompt, to the argument
\* fixer prompt and to the reflection prompt
BodiesFor(caller) ==
    CASE caller = "decision" -> {"doc", "docnogoal", "docthin", "met", "metctx", "multi"}
      [] caller = "heal" -> {"heal", "healthin", "healnogoal", "healstr"}
      [] caller = "reflect" -> {"refl"}

\* an object inside prose, and an object followed by garbage
WrappedResponses == {<<"x", " ", "{", "met", "}", " ", "x">>, <<"{", "doc", "}", "x">>}

ResponsesFor(caller) ==
    {<<"{", b, "}">> : b \in BodiesFor(caller)}
    \cup {<<"{", "}">>}
    \cup (IF caller = "decision" THEN WrappedResponses ELSE {})
    \cup FailingResponses

TitlePlan == <<"Plan", " ", "onboarding">>

TitleClarify == <<"clarify:", " ", "Plan">>

MemGoal == [task_goal |-> JStr(GoalFit)]

MemBlank == [task_goal |-> JStr(<<" ">>)]

BothTools == {"doc_write", "metrics_generate"}

\* the configurations a step runs in: provider and key (app/core/config.py),
\* the registry (both tools, as app/main.py imports them, or doc_write
\* alone), the step title and the memory snapshot
Configs ==
    {[provider |-> "groq", apiKey |-> TRUE, TOOLS |-> BothTools, step_title |-> TitlePlan, memory |-> MemGoal],
     [provider |-> "groq", apiKey |-> TRUE, TOOLS |-> BothTools, step_title |-> TitleClarify, memory |-> EmptyDict],
     [provider |-> "groq", apiKey |-> TRUE, TOOLS |-> BothTools, step_title |-> TitlePlan, memory |-> MemBlank],
     [provider |-> "groq", apiKey |-> TRUE, TOOLS |-> {"doc_write"}, step_title |-> TitlePlan, memory |-> MemGoal],
     [provider |-> "groq", apiKey |-> FALSE, TOOLS |-> BothTools, step_title |-> TitlePlan, memory |-> MemGoal],
     [provider |-> "mock", apiKey |-> FALSE, TOOLS |-> BothTools, step_title |-> TitlePlan, memory |-> MemGoal],
     [provider |-> "other", apiKey |-> TRUE, TOOLS |-> BothTools, step_title |-> TitlePlan, memory |-> MemGoal]}

OutGood ==
    <<"#", " ", "Plan", "\n", "##", " ", "Context", "\n", "mobile", " ", "fitness", " ", "plan">>

OutTbd == OutGood \o <<"\n", "Tbd">>

OutDup ==
    <<"##", " ", "Integration", "\n", "mobile", " ", "fitness", "\n", "##", " ", "Integration">>

OutDrift == OutGood \o <<" ", "e-commerce">>

\* a repeated header and a placeholder at once
OutDupTbd == OutDup \o <<"\n", "TBD">>

\* texts a document tool may return
DocOutputs == {OutGood, OutTbd, OutDup, OutDrift, OutDupTbd}

\* texts of the exceptions a tool call may raise on attempt a (0 or 1)
ToolErrorsAt(a) == IF a = 0 THEN {"E1"} ELSE {"E1", "E2"}

(* ------------------------------------------------------------------ *)
(* app/tools: the registered callables                                 *)
(* ------------------------------------------------------------------ *)
\* tool(**kwargs) binds: doc_write requires title and content and accepts
\* its four parameters only; metrics_generate(**kwargs) accepts anything
BindOk(tool, kwargs) ==
    IF tool = "doc_write"
    THEN {"title", "content"} \subseteq DOMAIN kwargs
         /\ DOMAIN kwargs \subseteq {"title", "content", "doc_type", "context"}
    ELSE TRUE

MetricsGenerate(kwargs) ==
    LET task_goal == Strip(PyStr(PyOr(Get(kwargs, "task_goal", JNull), JStr(<<>>))))
        stage == Strip(PyStr(PyOr(Get(kwargs, "stage", JNull), JStr(<<"growth">>))))
        goal_low == Lower(task_goal)
        fit == \E i \in 1..Len(goal_low) :
                 goal_low[i] \in {"fitness", "workout", "coaching", "trainer", "nutrition", "health"}
    IN  IF task_goal = <<>>
        THEN JDict([error |-> JStr(<<"missing_task_goal">>),
                    required_inputs |-> JList(<<JStr(<<"task_goal">>)>>)])
        ELSE JDict([task_goal |-> JStr(task_goal),
                    stage |-> JStr(stage),
                    north_star_metric |-> JStr(IF fit THEN <<"weekly_active_coached_users">>
                                               ELSE <<"activation_rate">>),
                    inputs_seen |-> [keys |-> DOMAIN kwargs]])

\* the values a successful call of the tool may return: the document tool is
\* a registered callable returning a text (one of DocOutputs, or its content
\* argument unchanged); the metrics tool returns its KPI object
ToolOutputs(tool, kwargs) ==
    IF tool = "doc_write"
    THEN {JStr(o) : o \in DocOutputs} \cup {JStr(PyStr(kwargs["content"]))}
    ELSE {MetricsGenerate(kwargs)}

(* ------------------------------------------------------------------ *)
(* app/agent/executor.py: run_step, the pure parts                      *)
(* ------------------------------------------------------------------ *)
\* dict.setdefault(k, v)
SetDefault(d, k, v) == IF k \in DOMAIN d THEN d ELSE (k :> v) @@ d

\* lines 311-331: schema enforcement and the hard context requirement
EnforceDocArgs(raw, title) ==
    LET ra == IF IsDict(raw) THEN raw.dict ELSE EmptyDict
        enf == EnsureDocWriteArgsSchema(ra)
        ctx == enf.context.dict
        task_goal == ExtractGoalFromContext(ctx)
    IN  IF task_goal = <<>>
        THEN [enf EXCEPT !.title = JStr(ClarifyTitle(title)),
                         !.doc_type = JStr(<<"generic">>),
                         !.content = JStr(MakeClarifyDoc(title, task_goal,
                                                         Get(ctx, "assumptions", JList(<<>>)).list,
                                                         Get(ctx, "constraints", JList(<<>>)).list))]
        ELSE enf

\* lines 343-353: the document-tool call that replaces a metrics call
\* without a goal
ClarifyRedirect(title) ==
    JDict(EnsureDocWriteArgsSchema(
        [title |-> JStr(ClarifyTitle(title)),
         doc_type |-> JStr(<<"generic">>),
         content |-> JStr(MakeClarifyDoc(title, <<>>, <<>>, <<>>)),
         context |-> JDict([task_goal |-> JStr(<<>>),
                            assumptions |-> JList(<<>>),
                            constraints |-> JList(<<>>)])]))

\* a grounding whose setdefault calls are made on the snapshot
MemoryGroundedInPlace(mem, title) ==
    SetDefault(SetDefault(mem, "task_goal", JStr(<<>>)), "step_title", JStr(title))

\* lines 338-339: the snapshot after the grounding: memory.get only reads
\* it, the setdefault calls are made on clean_args
MemoryAfterGrounding(mem, title) == mem

\* lines 338-339: ground the metrics arguments to the memory snapshot
GroundMetrics(clean, title, mem) ==
    SetDefault(
        SetDefault(clean, "task_goal", JStr(Strip(PyStr(Get(mem, "task_goal", JStr(<<>>)))))),
        "step_title", JStr(title))

\* a run_step whose KeyError handler forgets raw_args = {}
PrepareStepKeepsArgs(tn0, ra0, title, mem, registry) ==
    LET known == tn0 \in registry
        tn1 == IF known THEN tn0 ELSE "doc_write"
        ra2 == IF tn1 = "doc_write" THEN JDict(EnforceDocArgs(ra0, title)) ELSE ra0
        clean == CleanArgsForTool(tn1, ra2)
        grounded == GroundMetrics(clean, title, mem)
    IN  IF tn1 = "metrics_generate"
        THEN IF ~Truthy(Get(grounded, "task_goal", JNull))
             THEN [tool_name |-> "doc_write",
                   raw_args |-> ClarifyRedirect(title),
                   clean_args |-> CleanArgsForTool("doc_write", ClarifyRedirect(title))]
             ELSE [tool_name |-> tn1, raw_args |-> ra2, clean_args |-> grounded]
        ELSE [tool_name |-> tn1, raw_args |-> ra2, clean_args |-> clean]

\* lines 301-353: tool lookup, schema enforcement, cleaning, metrics grounding
PrepareStep(tn0, ra0, title, mem, registry) ==
    LET known == tn0 \in registry
        tn1 == IF known THEN tn0 ELSE "doc_write"
        ra1 == IF known THEN ra0 ELSE JDict(EmptyDict)
        ra2 == IF tn1 = "doc_write" THEN JDict(EnforceDocArgs(ra1, title)) ELSE ra1
        clean == CleanArgsForTool(tn1, ra2)
        grounded == GroundMetrics(clean, title, mem)
    IN  IF tn1 = "metrics_generate"
        THEN IF ~Truthy(Get(grounded, "task_goal", JNull))
             THEN [tool_name |-> "doc_write",
                   raw_args |-> ClarifyRedirect(title),
                   clean_args |-> CleanArgsForTool("doc_write", ClarifyRedirect(title))]
             ELSE [tool_name |-> tn1, raw_args |-> ra2, clean_args |-> grounded]
        ELSE [tool_name |-> tn1, raw_args |-> ra2, clean_args |-> clean]

BoolTok(b) == IF b THEN "True" ELSE "False"

\* lines 362-376: what the guardrails read and find after a successful
\* document-tool call; the context is that of raw_args
GuardEval(raw, title, out) ==
    LET out_text == PyStr(out)
        c0 == IF IsDict(raw) THEN Get(raw.dict, "context", JDict(EmptyDict)) ELSE JDict(EmptyDict)
        ctx == IF IsDict(c0) THEN c0.dict ELSE EmptyDict
        a0 == Get(ctx, "assumptions", JList(<<>>))
        k0 == Get(ctx, "constraints", JList(<<>>))
    IN  [task_goal |-> ExtractGoalFromContext(ctx),
         assumptions |-> SelectStr(IF IsList(a0) THEN a0.list ELSE <<>>),
         constraints |-> SelectStr(IF IsList(k0) THEN k0.list ELSE <<>>),
         bad_placeholders |-> ContainsPlaceholders(out_text),
         bad_dup |-> DuplicateHeaders(out_text),
         bad_drift |-> LikelyDomainDrift(ExtractGoalFromContext(ctx), title, out_text)]

\* a run_step that evaluates the guardrails after every tool
GuardAppliesToAnyTool(tool) == TRUE

\* line 362: the guardrails are for the document tool
GuardApplies(tool) == tool = "doc_write"

\* a run_step whose override forgets the duplicate-header check
GuardFiresWithoutDup(g) == g.bad_placeholders \/ g.bad_drift

\* line 378
GuardFires(g) == g.bad_placeholders \/ g.bad_dup \/ g.bad_drift

\* line 379
GuardClarify(g, title) == MakeClarifyDoc(title, g.task_goal, g.assumptions, g.constraints)

\* lines 383-398
SyntheticDecision(g, title) ==
    [tool |-> JStr(<<"doc_write">>),
     args |-> JDict([title |-> JStr(ClarifyTitle(title)),
                     content |-> JStr(GuardClarify(g, title)),
                     doc_type |-> JStr(<<"generic">>),
                     context |-> JDict([task_goal |-> JStr(g.task_goal),
                                        assumptions |-> JList(g.assumptions),
                                        constraints |-> JList(g.constraints)])]),
     decision |-> JStr(<<"Forced clarify">>),
     reason |-> JStr(<<"bad_placeholders=", BoolTok(g.bad_placeholders), ",", " ",
                       "bad_dup_headers=", BoolTok(g.bad_dup), ",", " ",
                       "bad_domain_drift=", BoolTok(g.bad_drift)>>),
     confidence |-> JNum(100)]

\* a run_step whose error record carries no exception text
ErrorRecordWithoutText(e) ==
    JDict([error |-> JStr(<<"Tool execution failed after retry">>),
           details |-> JStr(<<>>)])

\* line 434
ErrorRecord(e) ==
    JDict([error |-> JStr(<<"Tool execution failed after retry">>),
           details |-> JStr(<<e>>)])

\* lines 422-428: the arguments of attempt 2 from the self-heal answer
HealedArgs(fix, tool, clean) ==
    LET fixed_args == Get(fix, "args", JDict(clean))
        fixed2 == IF tool = "doc_write" /\ IsDict(fixed_args)
                  THEN JDict(EnsureDocWriteArgsSchema(fixed_args.dict))
                  ELSE fixed_args
    IN  CleanArgsForTool(tool, fixed2)

\* a retry loop of range(3)
MaxToolAttemptsPlusOne == 2 + 1

\* range(2)
MaxToolAttempts == 2

(* ------------------------------------------------------------------ *)
(* app/llm/router.py: constants                                        *)
(* ------------------------------------------------------------------ *)
\* range(3) in _groq_chat
MaxHttpAttempts == 3

\* 0.6 s, in milliseconds
BackoffBaseMs == 600

\* a cascade with one more repair stage
MaxStagesPlusOne == 3 + 1

\* the three stages of llm_json
MaxStages == 3

RECURSIVE Pow2(_)
Pow2(n) == IF n = 0 THEN 1 ELSE 2 * Pow2(n - 1)

\* backoff = 0.6 * (2**attempt)
\* a backoff that does not grow
BackoffFlat(k) == BackoffBaseMs

Backoff(k) == BackoffBaseMs * Pow2(k)

TRANSIENT_STATUSES == {429, 500, 502, 503, 504}

\* the HTTP statuses the endpoint answers with in the model
HttpStatuses == {200, 404, 503}

MockDecision ==
    [tool |-> JStr(<<"doc_write">>),
     args |-> JDict([title |-> JStr(<<"Mock Output">>), content |-> JStr(<<"(prompt)">>)]),
     decision |-> JStr(<<"Mock tool">>),
     reason |-> JStr(<<"No LLM key">>),
     confidence |-> JNum(50)]

HardDefault ==
    [tool |-> JStr(<<"doc_write">>),
     args |-> JDict([title |-> JStr(<<"Step Output">>),
                     content |-> JStr(<<"Fallback: produce a structured document for this step.">>)]),
     decision |-> JStr(<<"Fallback doc_write">>),
     reason |-> JStr(<<"LLM JSON formatting failed after retries.">>),
     confidence |-> JNum(0)]

\* a stage without the isinstance(parsed, dict) test
StageParseAnyJson(t) == ExtractJson(t)

\* lines 107-110, 122-125, 166-170: the stage succeeds when the text parses
\* to a dict
StageParse(t) ==
    LET parsed == ExtractJson(t)
    IN  IF parsed.ok /\ IsDict(parsed.val) THEN parsed ELSE ParseErr

(* ------------------------------------------------------------------ *)
(* State                                                               *)
(* ------------------------------------------------------------------ *)
VARIABLES
    provider,       \* settings.LLM_PROVIDER
    apiKey,         \* whether settings.GROQ_API_KEY is set
    TOOLS,          \* the names registered in app.tools.registry.TOOLS
    step_title,     \* run_step's step_title
    memory,         \* run_step's memory snapshot
    pc,             \* where run_step is
    llmCaller,      \* which llm_json call is running: decision, heal, reflect
    stage,          \* the stage of llm_json: 1 raw, 2 repair, 3 schema repair
    reqAttempt,     \* _groq_chat's loop variable attempt
    text,           \* llm_json's text, text2, text3
    text2,
    text3,
    prompt,         \* the user prompt of the current round trip
    sleeps,         \* the asyncio.sleep calls of the current round trip, in ms
    lastHttp,       \* the outcome of the last HTTP request of the round trip
    llmResult,      \* how llm_json ended: returned dict or raised
    roundTrips,     \* the _groq_chat calls of the running llm_json that reached the endpoint
    decision,
    tool_name,
    raw_args,
    clean_args,
    attempt,
    output,
    final_decision,
    lastError,      \* str(e) of the last tool exception
    reflection,
    toolCalls,      \* the calls tool(**clean_args) made, in order
    guardLog,       \* the guardrail evaluations made, in order
    traceLog,       \* the trace events appended, in order
    raised,         \* the exception that left run_step, "" when none
    steps,          \* the TaskStep rows of the task, by idx: status and result
    traceRows,      \* the TraceEvent rows committed, in order
    decisionRows,   \* the Decision rows committed, in order
    taskStatus,     \* Task.status
    reqs,           \* the api_step requests: where each is, and its locals
    crashed,        \* whether the process has crashed and restarted
    fnCall,         \* a helper called on its own: which one, and its argument
    fnRet,          \* what that call returned
    runner          \* run_task_until_done: where it is, and its locals

\* the store and the requests of api_step
apiVars == <<steps, traceRows, decisionRows, taskStatus, reqs, crashed>>

\* a helper function called on its own
pureVars == <<fnCall, fnRet>>

\* what one run_step never writes: the settings, the registry, its own
\* arguments, the rows and requests of the API layer
cfgVars == <<provider, apiKey, TOOLS, step_title, memory, apiVars, pureVars, runner>>

llmVars ==
    <<llmCaller, stage, reqAttempt, text, text2, text3, prompt, sleeps, lastHttp, llmResult,
      roundTrips>>

stepVars ==
    <<decision, tool_name, raw_args, clean_args, attempt, output, final_decision,
      lastError, reflection>>

logVars == <<toolCalls, guardLog>>

vars == <<cfgVars, pc, llmVars, stepVars, logVars, traceLog, raised>>

\* the variables of one run_step
runVars ==
    <<provider, apiKey, TOOLS, step_title, memory, pc, llmVars, stepVars, logVars, traceLog,
      raised>>

\* the requests that may call POST /tasks/step for the one task
Requests == {"r1", "r2", "r3"}

\* TaskStep.idx of the steps the plan has (routes.py:38-40 adds them as pending)
StepIdx == {1, 2}

\* a request that has not been sent: no step picked, no event appended
NoRequest == [pc |-> "idle", pending |-> 0, events |-> 0]

\* the state api_start_task leaves: every step pending, nothing traced
ApiIdle ==
    /\ steps = [i \in StepIdx |-> [status |-> "pending", result |-> JNull]]
    /\ traceRows = <<>>
    /\ decisionRows = <<>>
    /\ taskStatus = "active"
    /\ reqs = [r \in Requests |-> NoRequest]
    /\ crashed = FALSE

NoCall == [fn |-> "none", arg |-> JNull]

NoRet == [done |-> FALSE, val |-> JNull]

\* no helper is being called on its own
PureIdle ==
    /\ fnCall = NoCall
    /\ fnRet = NoRet

\* run_task_until_done is not called
RunnerIdle == runner = [pc |-> "off", step |-> 0, output |-> JNull, outputs |-> <<>>,
                        result |-> JNull]

NoPrompt == [kind |-> "none", text |-> <<>>]

NoHttp == [kind |-> "none", status |-> 0]

NoResult == [kind |-> "none", val |-> JNull]

\* llmResult.val is the value llm_json returned
Returned(v) == [kind |-> "ret", val |-> v]

Raised == [kind |-> "exc", val |-> JNull]

CallPcs == {"call_decision", "call_heal", "call_reflect"}

CallerOf(p) ==
    CASE p = "call_decision" -> "decision"
      [] p = "call_heal" -> "heal"
      [] p = "call_reflect" -> "reflect"

\* the frame of llm_json is gone once its caller has the result
LlmFrameGone ==
    /\ llmCaller' = "none"
    /\ stage' = 0
    /\ reqAttempt' = 0
    /\ text' = <<>>
    /\ text2' = <<>>
    /\ text3' = <<>>
    /\ prompt' = NoPrompt
    /\ sleeps' = <<>>
    /\ lastHttp' = NoHttp
    /\ llmResult' = NoResult
    /\ roundTrips' = 0

RunStepInit(c) ==
    /\ provider = c.provider
    /\ apiKey = c.apiKey
    /\ TOOLS = c.TOOLS
    /\ step_title = c.step_title
    /\ memory = c.memory
    /\ pc = "call_decision"
    /\ llmCaller = "none"
    /\ stage = 0
    /\ reqAttempt = 0
    /\ text = <<>>
    /\ text2 = <<>>
    /\ text3 = <<>>
    /\ prompt = NoPrompt
    /\ sleeps = <<>>
    /\ lastHttp = NoHttp
    /\ llmResult = NoResult
    /\ roundTrips = 0
    /\ decision = EmptyDict
    /\ tool_name = "none"
    /\ raw_args = JNull
    /\ clean_args = EmptyDict
    /\ attempt = 0
    /\ output = JNull
    /\ final_decision = EmptyDict
    /\ lastError = ""
    /\ reflection = EmptyDict
    /\ toolCalls = <<>>
    /\ guardLog = <<>>
    /\ traceLog = <<>>
    /\ raised = ""

\* one run_step is called; the API layer and the helpers are left alone
Init ==
    /\ \E c \in Configs : RunStepInit(c)
    /\ ApiIdle
    /\ PureIdle
    /\ RunnerIdle

(* ------------------------------------------------------------------ *)
(* app/llm/router.py: llm_json and _groq_chat                          *)
(* ------------------------------------------------------------------ *)
\* llm_json, provider == "mock": the fixed mock decision
LlmMock ==
    /\ pc \in CallPcs
    /\ provider = "mock"
    /\ llmCaller' = CallerOf(pc)
    /\ llmResult' = Returned(JDict(MockDecision))
    /\ pc' = "llm_done"
    /\ UNCHANGED <<cfgVars, stage, reqAttempt, text, text2, text3, prompt, sleeps, lastHttp,
                   roundTrips, stepVars, logVars, traceLog, raised>>

\* llm_json, provider neither groq nor mock: raise LLMError
LlmUnsupported ==
    /\ pc \in CallPcs
    /\ provider \notin {"mock", "groq"}
    /\ llmCaller' = CallerOf(pc)
    /\ llmResult' = Raised
    /\ pc' = "llm_done"
    /\ UNCHANGED <<cfgVars, stage, reqAttempt, text, text2, text3, prompt, sleeps, lastHttp,
                   roundTrips, stepVars, logVars, traceLog, raised>>

\* _groq_chat without GROQ_API_KEY: raise LLMError before any request
LlmNoKey ==
    /\ pc \in CallPcs
    /\ provider = "groq"
    /\ ~apiKey
    /\ llmCaller' = CallerOf(pc)
    /\ stage' = 1
    /\ llmResult' = Raised
    /\ pc' = "llm_done"
    /\ UNCHANGED <<cfgVars, reqAttempt, text, text2, text3, prompt, sleeps, lastHttp,
                   roundTrips, stepVars, logVars, traceLog, raised>>

\* llm_json, provider groq: the first round trip starts
LlmStart ==
    /\ pc \in CallPcs
    /\ provider = "groq"
    /\ apiKey
    /\ llmCaller' = CallerOf(pc)
    /\ stage' = 1
    /\ reqAttempt' = 0
    /\ prompt' = [kind |-> "original", text |-> <<>>]
    /\ sleeps' = <<>>
    /\ lastHttp' = NoHttp
    /\ roundTrips' = roundTrips + 1
    /\ pc' = "http"
    /\ UNCHANGED <<cfgVars, text, text2, text3, llmResult, stepVars, logVars, traceLog, raised>>

\* a request answered 200 with a completion text t: _groq_chat returns t and
\* llm_json parses it; on failure the next stage's round trip starts, and
\* after the third stage the hard fallback is returned
HttpOk ==
    /\ pc = "http"
    /\ \E t \in ResponsesFor(llmCaller) :
         LET parsed == StageParse(t)
         IN  /\ text' = IF stage = 1 THEN t ELSE text
             /\ text2' = IF stage = 2 THEN t ELSE text2
             /\ text3' = IF stage = 3 THEN t ELSE text3
             /\ IF parsed.ok
                THEN /\ llmResult' = Returned(parsed.val)
                     /\ lastHttp' = [kind |-> "ok", status |-> 200]
                     /\ pc' = "llm_done"
                     /\ UNCHANGED <<stage, reqAttempt, prompt, sleeps, roundTrips>>
                ELSE IF stage < MaxStages
                THEN /\ stage' = stage + 1
                     /\ reqAttempt' = 0
                     /\ prompt' = [kind |-> IF stage = 1 THEN "repair" ELSE "schema", text |-> t]
                     /\ sleeps' = <<>>
                     /\ lastHttp' = NoHttp
                     /\ roundTrips' = roundTrips + 1
                     /\ pc' = "http"
                     /\ UNCHANGED llmResult
                ELSE /\ llmResult' = Returned(JDict(HardDefault))
                     /\ lastHttp' = [kind |-> "ok", status |-> 200]
                     /\ pc' = "llm_done"
                     /\ UNCHANGED <<stage, reqAttempt, prompt, sleeps, roundTrips>>
    /\ UNCHANGED <<cfgVars, llmCaller, stepVars, logVars, traceLog, raised>>

\* lines 57-62 and 74-77: sleep the backoff, then the next request, or
\* LLMError after the last one
HttpRetry(kind, status) ==
    /\ sleeps' = Append(sleeps, Backoff(reqAttempt))
    /\ lastHttp' = [kind |-> kind, status |-> status]
    /\ reqAttempt' = reqAttempt + 1
    /\ IF reqAttempt + 1 < MaxHttpAttempts
       THEN UNCHANGED <<pc, llmResult>>
       ELSE llmResult' = Raised /\ pc' = "llm_done"
    /\ UNCHANGED <<cfgVars, llmCaller, stage, text, text2, text3, prompt, roundTrips,
                   stepVars, logVars, traceLog, raised>>

\* a request answered with a transient status
HttpTransient ==
    /\ pc = "http"
    /\ \E st \in HttpStatuses : st \in TRANSIENT_STATUSES /\ HttpRetry("transient", st)

\* a request answered with another status >= 400: LLMError is raised inside
\* the try block and caught by its except clause
HttpError ==
    /\ pc = "http"
    /\ \E st \in HttpStatuses :
         st \notin TRANSIENT_STATUSES /\ st >= 400 /\ HttpRetry("error", st)

\* the request itself raised (timeout, connection error), or the 200 body
\* had no choices[0].message.content
HttpException ==
    /\ pc = "http"
    /\ HttpRetry("exception", 0)

(* ------------------------------------------------------------------ *)
(* app/agent/executor.py: run_step                                     *)
(* ------------------------------------------------------------------ *)
\* the event types of run_step, in the order of lines 286, 293, 436, 454
TraceOrder == <<"decision", "tool", "llm", "reflection">>

TraceEvent(type, payload) == [event_type |-> type, payload |-> payload]

\* line 285: llm_json returned the decision
DecisionReturned ==
    /\ pc = "llm_done" /\ llmCaller = "decision" /\ llmResult.kind = "ret"
    /\ decision' = llmResult.val.dict
    /\ pc' = "trace_decision"
    /\ LlmFrameGone
    /\ UNCHANGED <<cfgVars, tool_name, raw_args, clean_args, attempt, output,
                   final_decision, lastError, reflection, logVars, traceLog, raised>>

\* line 285: llm_json raised; nothing catches it
DecisionRaised ==
    /\ pc = "llm_done" /\ llmCaller = "decision" /\ llmResult.kind = "exc"
    /\ raised' = "LLMError"
    /\ pc' = "raised"
    /\ LlmFrameGone
    /\ UNCHANGED <<cfgVars, stepVars, logVars, traceLog>>

\* lines 286-291: the decision event, then the raw and the normalized tool
TraceDecision ==
    /\ pc = "trace_decision"
    /\ traceLog' = Append(traceLog, TraceEvent("decision", JDict(SafeJsonable(decision))))
    /\ raw_args' = Get(decision, "args", JDict(EmptyDict))
    /\ tool_name' = NormalizeToolName(Get(decision, "tool", JStr(<<"doc_write">>)))
    /\ pc' = "trace_tool"
    /\ UNCHANGED <<cfgVars, llmVars, decision, clean_args, attempt, output,
                   final_decision, lastError, reflection, logVars, raised>>

\* lines 293-357: the tool event, then the arguments are prepared
\* variant: final_decision starts as the decision rewritten to the tool and
\* arguments that will be executed
InitialFinalDecisionExecuted(d, tool, args) ==
    [k \in DOMAIN d \cup {"tool", "args"} |->
        IF k = "tool" THEN JStr(<<tool>>) ELSE IF k = "args" THEN args ELSE d[k]]

\* final_decision = decision before the attempt loop: the mapping the cascade
\* returned, not the tool and arguments prepared for execution
InitialFinalDecision(d, tool, args) == d

TraceTool ==
    /\ pc = "trace_tool"
    /\ traceLog' = Append(traceLog,
                          TraceEvent("tool",
                                     JDict([tool_raw |-> Get(decision, "tool", JStr(<<"doc_write">>)),
                                            tool |-> JStr(<<tool_name>>),
                                            args |-> raw_args])))
    /\ LET p == PrepareStep(tool_name, raw_args, step_title, memory, TOOLS)
       IN  /\ tool_name' = p.tool_name
           /\ raw_args' = p.raw_args
           /\ clean_args' = p.clean_args
           /\ final_decision' = InitialFinalDecision(decision, p.tool_name, p.raw_args)
    /\ memory' = IF tool_name = "metrics_generate" /\ tool_name \in TOOLS
                  THEN MemoryAfterGrounding(memory, step_title)
                  ELSE memory
    /\ attempt' = 0
    /\ output' = JNull
    /\ pc' = "tool_call"
    /\ UNCHANGED <<provider, apiKey, TOOLS, step_title, apiVars, pureVars, runner, llmVars, decision,
                   lastError, reflection, logVars, raised>>

\* lines 286, 293, 436: add_trace fails (the commit raises); nothing catches it
TraceFailed ==
    /\ pc \in {"trace_decision", "trace_tool", "trace_llm"}
    /\ raised' = "DBError"
    /\ pc' = "raised"
    /\ UNCHANGED <<cfgVars, llmVars, stepVars, logVars, traceLog>>

ToolCall(ok) == [tool |-> tool_name, args |-> clean_args, attempt |-> attempt, ok |-> ok]

\* lines 361-400: the tool returns; the guardrails run for the document tool
\* variant: the guardrails read the context of the arguments passed to the tool
GuardrailArgsHealed(raw, clean) == JDict(clean)

\* the mapping whose context the guardrails read: raw_args, which the
\* self-heal never reassigns
GuardrailArgs(raw, clean) == raw

ToolReturns ==
    /\ pc = "tool_call"
    /\ BindOk(tool_name, clean_args)
    /\ \E out \in ToolOutputs(tool_name, clean_args) :
         LET g == GuardEval(GuardrailArgs(raw_args, clean_args), step_title, out)
         IN  IF GuardApplies(tool_name)
             THEN /\ guardLog' = Append(guardLog, [attempt |-> attempt, tool_output |-> out, found |-> g])
                  /\ IF GuardFires(g)
                     THEN /\ output' = JStr(GuardClarify(g, step_title))
                          /\ final_decision' = SyntheticDecision(g, step_title)
                     ELSE /\ output' = out
                          /\ UNCHANGED final_decision
             ELSE /\ output' = out
                  /\ UNCHANGED <<guardLog, final_decision>>
    /\ toolCalls' = Append(toolCalls, ToolCall(TRUE))
    /\ pc' = "trace_llm"
    /\ UNCHANGED <<cfgVars, llmVars, decision, tool_name, raw_args, clean_args,
                   attempt, lastError, reflection, traceLog, raised>>

\* a run_step without the assignment of line 434
ToolRaisesNoRecord ==
    /\ pc = "tool_call"
    /\ \E e \in ToolErrorsAt(attempt) \cup {"TypeError"} :
         /\ (e = "TypeError") <=> ~BindOk(tool_name, clean_args)
         /\ IF attempt + 1 < MaxToolAttempts
            THEN pc' = "call_heal" /\ lastError' = e
            ELSE pc' = "trace_llm" /\ lastError' = ""
    /\ toolCalls' = Append(toolCalls, ToolCall(FALSE))
    /\ UNCHANGED <<cfgVars, llmVars, decision, tool_name, raw_args, clean_args, output,
                   attempt, final_decision, reflection, guardLog, traceLog, raised>>

\* lines 402-434: the tool raises; after attempt 1 the self-heal call
\* follows, after attempt 2 the outcome is the error record
ToolRaises ==
    /\ pc = "tool_call"
    /\ \E e \in ToolErrorsAt(attempt) \cup {"TypeError"} :
         /\ (e = "TypeError") <=> ~BindOk(tool_name, clean_args)
         /\ IF attempt + 1 < MaxToolAttempts
            THEN pc' = "call_heal" /\ lastError' = e /\ UNCHANGED output
            ELSE pc' = "trace_llm" /\ lastError' = "" /\ output' = ErrorRecord(e)
    /\ toolCalls' = Append(toolCalls, ToolCall(FALSE))
    /\ UNCHANGED <<cfgVars, llmVars, decision, tool_name, raw_args, clean_args,
                   attempt, final_decision, reflection, guardLog, traceLog, raised>>

\* lines 421-428: the self-heal answer gives the arguments of attempt 2
HealReturned ==
    /\ pc = "llm_done" /\ llmCaller = "heal" /\ llmResult.kind = "ret"
    /\ clean_args' = HealedArgs(llmResult.val.dict, tool_name, clean_args)
    /\ attempt' = attempt + 1
    /\ lastError' = ""
    /\ pc' = "tool_call"
    /\ LlmFrameGone
    /\ UNCHANGED <<cfgVars, decision, tool_name, raw_args, output, final_decision,
                   reflection, logVars, traceLog, raised>>

\* lines 430-431: the self-heal call raised; attempt 2 keeps clean_args
HealFailed ==
    /\ pc = "llm_done" /\ llmCaller = "heal" /\ llmResult.kind = "exc"
    /\ attempt' = attempt + 1
    /\ lastError' = ""
    /\ pc' = "tool_call"
    /\ LlmFrameGone
    /\ UNCHANGED <<cfgVars, decision, tool_name, raw_args, clean_args, output,
                   final_decision, reflection, logVars, traceLog, raised>>

\* a run_step that appends the llm event twice
TraceLlmTwice ==
    /\ pc = "trace_llm"
    /\ traceLog' = traceLog \o
                     <<TraceEvent("llm", JDict([tool_output |-> SafeJsonable(output)])),
                       TraceEvent("llm", JDict([tool_output |-> SafeJsonable(output)]))>>
    /\ pc' = "call_reflect"
    /\ UNCHANGED <<cfgVars, llmVars, stepVars, logVars, raised>>

\* line 436: the llm event carries the final output
TraceLlm ==
    /\ pc = "trace_llm"
    /\ traceLog' = Append(traceLog, TraceEvent("llm", JDict([tool_output |-> SafeJsonable(output)])))
    /\ pc' = "call_reflect"
    /\ UNCHANGED <<cfgVars, llmVars, stepVars, logVars, raised>>

\* line 453: the reflection call returned
ReflectReturned ==
    /\ pc = "llm_done" /\ llmCaller = "reflect" /\ llmResult.kind = "ret"
    /\ reflection' = llmResult.val.dict
    /\ pc' = "trace_reflection"
    /\ LlmFrameGone
    /\ UNCHANGED <<cfgVars, decision, tool_name, raw_args, clean_args, attempt,
                   output, final_decision, lastError, logVars, traceLog, raised>>

\* a run_step whose reflection call stands outside the try block
ReflectFailedUncaught ==
    /\ pc = "llm_done" /\ llmCaller = "reflect" /\ llmResult.kind = "exc"
    /\ pc' = "raised"
    /\ raised' = "LLMError"
    /\ LlmFrameGone
    /\ UNCHANGED <<cfgVars, stepVars, logVars, traceLog>>

\* lines 455-458: the reflection call raised; swallowed, run_step returns
ReflectFailed ==
    /\ pc = "llm_done" /\ llmCaller = "reflect" /\ llmResult.kind = "exc"
    /\ pc' = "done"
    /\ LlmFrameGone
    /\ UNCHANGED <<cfgVars, stepVars, logVars, traceLog, raised>>

\* lines 454, 458: the reflection event is appended, run_step returns
TraceReflection ==
    /\ pc = "trace_reflection"
    /\ traceLog' = Append(traceLog, TraceEvent("reflection", JDict(SafeJsonable(reflection))))
    /\ pc' = "done"
    /\ UNCHANGED <<cfgVars, llmVars, stepVars, logVars, raised>>

\* lines 454-458: appending the reflection event fails; swallowed
TraceReflectionFailed ==
    /\ pc = "trace_reflection"
    /\ pc' = "done"
    /\ UNCHANGED <<cfgVars, llmVars, stepVars, logVars, traceLog, raised>>

Next ==
    \/ LlmMock
    \/ LlmUnsupported
    \/ LlmNoKey
    \/ LlmStart
    \/ HttpOk
    \/ HttpTransient
    \/ HttpError
    \/ HttpException
    \/ DecisionReturned
    \/ DecisionRaised
    \/ TraceDecision
    \/ TraceTool
    \/ TraceFailed
    \/ ToolReturns
    \/ ToolRaises
    \/ HealReturned
    \/ HealFailed
    \/ TraceLlm
    \/ ReflectReturned
    \/ ReflectFailed
    \/ TraceReflection
    \/ TraceReflectionFailed

Spec == Init /\ [][Next]_vars

(* ------------------------------------------------------------------ *)
(* app/api/routes.py: api_step, requests interleaving at their awaits  *)
(* ------------------------------------------------------------------ *)
\* line 59: the first step that is pending or running, 0 for None
FirstOpen(st) ==
    IF \E i \in StepIdx : st[i].status \in {"pending", "running"}
    THEN SetMin({i \in StepIdx : st[i].status \in {"pending", "running"}})
    ELSE 0

\* the request is being served
InFlight(r) == reqs[r].pc \notin {"idle", "returned", "failed", "killed"}

\* the request has marked its step running and not yet marked it done
Executing(r) == reqs[r].pc \in {"snapshot", "run_step", "add_decision", "update_done"}

\* lines 51-59: the request loads the task and its steps and picks one
ApiListSteps(r) ==
    /\ reqs[r].pc = "idle"
    /\ LET p == FirstOpen(steps) IN
         reqs' = [reqs EXCEPT ![r] = [pc |-> IF p = 0 THEN "task_done" ELSE "update_running",
                                      pending |-> p,
                                      events |-> 0]]
    /\ UNCHANGED <<runVars, pureVars, runner, steps, traceRows, decisionRows, taskStatus, crashed>>

\* lines 60-63: no step is left, the task is marked done
ApiTaskDone(r) ==
    /\ reqs[r].pc = "task_done"
    /\ taskStatus' = "done"
    /\ reqs' = [reqs EXCEPT ![r].pc = "returned"]
    /\ UNCHANGED <<runVars, pureVars, runner, steps, traceRows, decisionRows, crashed>>

\* lines 65-66: the step is marked running and committed
ApiUpdateRunning(r) ==
    /\ reqs[r].pc = "update_running"
    /\ steps' = [steps EXCEPT ![reqs[r].pending].status = "running"]
    /\ reqs' = [reqs EXCEPT ![r].pc = "snapshot"]
    /\ UNCHANGED <<runVars, pureVars, runner, traceRows, decisionRows, taskStatus, crashed>>

\* lines 68-69: the memory snapshot is read
ApiSnapshot(r) ==
    /\ reqs[r].pc = "snapshot"
    /\ reqs' = [reqs EXCEPT ![r].pc = "run_step"]
    /\ UNCHANGED <<runVars, pureVars, runner, steps, traceRows, decisionRows, taskStatus, crashed>>

\* tracer.trace and repo.add_trace: run_step appends its next event,
\* committed on its own
RunStepAppends(r) ==
    /\ reqs[r].pc = "run_step"
    /\ reqs[r].events < Len(TraceOrder)
    /\ traceRows' = Append(traceRows, [step |-> reqs[r].pending,
                                       event_type |-> TraceOrder[reqs[r].events + 1]])
    /\ reqs' = [reqs EXCEPT ![r].events = @ + 1]
    /\ UNCHANGED <<runVars, pureVars, runner, steps, decisionRows, taskStatus, crashed>>

\* lines 71-77: run_step returns, after the llm event at the earliest
RunStepReturns(r) ==
    /\ reqs[r].pc = "run_step"
    /\ reqs[r].events >= 3
    /\ reqs' = [reqs EXCEPT ![r].pc = "add_decision"]
    /\ UNCHANGED <<runVars, pureVars, runner, steps, traceRows, decisionRows, taskStatus, crashed>>

\* lines 71-77: run_step raises (the decision call or a trace append failed)
\* and the exception leaves api_step
RunStepRaises(r) ==
    /\ reqs[r].pc = "run_step"
    /\ reqs[r].events < 3
    /\ reqs' = [reqs EXCEPT ![r].pc = "failed"]
    /\ UNCHANGED <<runVars, pureVars, runner, steps, traceRows, decisionRows, taskStatus, crashed>>

\* lines 79-88: the Decision row is committed
ApiAddDecision(r) ==
    /\ reqs[r].pc = "add_decision"
    /\ decisionRows' = Append(decisionRows, [step |-> reqs[r].pending, req |-> r])
    /\ reqs' = [reqs EXCEPT ![r].pc = "update_done"]
    /\ UNCHANGED <<runVars, pureVars, runner, steps, traceRows, taskStatus, crashed>>

\* line 86: int(decision.get("confidence", 70)) raises for a confidence the
\* model gave as null or as a word, and the exception leaves api_step
ApiAddDecisionRaises(r) ==
    /\ reqs[r].pc = "add_decision"
    /\ reqs' = [reqs EXCEPT ![r].pc = "failed"]
    /\ UNCHANGED <<runVars, pureVars, runner, steps, traceRows, decisionRows, taskStatus, crashed>>

\* lines 90-92: the step is marked done with its result and committed
ApiUpdateDone(r) ==
    /\ reqs[r].pc = "update_done"
    /\ steps' = [steps EXCEPT ![reqs[r].pending] = [status |-> "done", result |-> JStr(<<r>>)]]
    /\ reqs' = [reqs EXCEPT ![r].pc = "returned"]
    /\ UNCHANGED <<runVars, pureVars, runner, traceRows, decisionRows, taskStatus, crashed>>

\* a store that rolls back the rows of every step not yet done
SurvivesCrashStepAtomic(rows) ==
    SelectSeq(rows, LAMBDA e : steps[e.step].status = "done")

\* repo.add_trace commits each row on its own (db.add, db.commit): a row
\* once added is in the store whatever happens to the process later
SurvivesCrash(rows) == rows

\* the process dies and restarts: the requests being served are gone, the
\* store keeps what was committed
Crash ==
    /\ ~crashed
    /\ \E r \in Requests : InFlight(r)
    /\ crashed' = TRUE
    /\ reqs' = [r \in Requests |-> IF InFlight(r) THEN [reqs[r] EXCEPT !.pc = "killed"]
                                   ELSE reqs[r]]
    /\ traceRows' = SurvivesCrash(traceRows)
    /\ UNCHANGED <<runVars, pureVars, runner, steps, decisionRows, taskStatus>>

ApiInit ==
    /\ RunStepInit([provider |-> "mock", apiKey |-> FALSE, TOOLS |-> BothTools,
                    step_title |-> TitlePlan, memory |-> MemGoal])
    /\ ApiIdle
    /\ PureIdle
    /\ RunnerIdle

ApiNext ==
    \/ \E r \in Requests : ApiListSteps(r)
    \/ \E r \in Requests : ApiTaskDone(r)
    \/ \E r \in Requests : ApiUpdateRunning(r)
    \/ \E r \in Requests : ApiSnapshot(r)
    \/ \E r \in Requests : RunStepAppends(r)
    \/ \E r \in Requests : RunStepReturns(r)
    \/ \E r \in Requests : RunStepRaises(r)
    \/ \E r \in Requests : ApiAddDecision(r)
    \/ \E r \in Requests : ApiAddDecisionRaises(r)
    \/ \E r \in Requests : ApiUpdateDone(r)
    \/ Crash

ApiSpec == ApiInit /\ [][ApiNext]_vars

(* ------------------------------------------------------------------ *)
(* The helpers of executor.py and json_parse.py, called on their own    *)
(* over bounded sets of arguments                                       *)
(* ------------------------------------------------------------------ *)
\* a key that a dict does not have
Absent == [absent |-> TRUE]

IsAbsent(v) == DOMAIN v = {"absent"}

\* the dict holding the keys of f that are not Absent
MkDict(f) == [k \in {x \in DOMAIN f : ~IsAbsent(f[x])} |-> f[k]]

\* the sequences of at most two, and of at most three, elements of S
UpTo2(S) == {<<>>} \cup {<<a>> : a \in S} \cup {<<a, b>> : a, b \in S}

UpTo3(S) == UpTo2(S) \cup {<<a, b, c>> : a, b, c \in S}

\* raw tool identifiers: values that are no str, and strings made of tool
\* names, another word, blanks and the two separators
RawToolNames ==
    {JNull, JNum(1), JList(<<>>), JDict(EmptyDict)}
    \cup {JStr(t) : t \in UpTo3({"doc_write", "metrics_generate", "other", " ", "|", ","})}

\* prose around an object: words, blanks, and the four bracket characters
Proses == UpTo2({"x", " ", "{", "}", "[", "]"}) \cup {<<"x", " ", "[", "x", "]", ":", " ">>}

\* a response: prose, one object, prose
ResponseText(a) == a.pre \o <<"{", a.body, "}">> \o a.post

ExtractArgs == [pre : Proses, body : {"doc", "met"}, post : Proses]

\* values found under context.task_goal, and under context.assumptions
\* and context.constraints
CtxGoals ==
    {Absent, JNull, JStr(<<>>), JStr(<<" ">>), JStr(GoalFit), JNum(0), JNum(3), JList(<<>>),
     JDict(EmptyDict)}

CtxLists ==
    {Absent, JNull, JStr(<<"a">>), JNum(1), JDict(EmptyDict), JList(<<>>),
     JList(<<JStr(<<"a">>), JStr(<<>>), JStr(<<" ">>), JNull, JNum(0), JList(<<>>),
             JStr(<<" ", "b">>)>>)}

Contexts ==
    {Absent, JNull, JStr(<<"ctx">>), JNum(1), JList(<<>>)}
    \cup {JDict(MkDict([task_goal |-> g, assumptions |-> a, constraints |-> c])) :
            g \in CtxGoals, a \in CtxLists, c \in CtxLists}

\* argument mappings of the document tool
DocArgs ==
    {EmptyDict}
    \cup {MkDict([title |-> JStr(<<"T">>), content |-> JStr(ContentGood), context |-> x]) :
            x \in Contexts}

\* arguments given to _clean_args_for_tool
CleanArgs ==
    {JNull, JStr(<<"a">>), JNum(3), JList(<<>>), JDict(EmptyDict),
     JDict([title |-> JStr(<<"T">>), content |-> JStr(ContentGood)]),
     JDict([title |-> JStr(<<"T">>), content |-> JStr(ContentGood),
            doc_type |-> JStr(<<"prd">>), context |-> JDict(EmptyDict)]),
     JDict([title |-> JStr(<<"T">>), content |-> JStr(ContentGood), bogus |-> JNum(1)]),
     JDict([bogus |-> JNum(1)]),
     JDict([kwargs |-> JDict(EmptyDict), goal |-> JStr(GoalFit)]),
     JDict([goal |-> JStr(GoalFit), context |-> JDict([task_goal |-> JStr(GoalFit)])])}

\* more argument mappings of the document tool: titles, contents and
\* document types of every kind, and a key the tool does not know
DocArgsShapes ==
    {MkDict([title |-> t, content |-> c, doc_type |-> d, extra |-> e]) :
        t \in {Absent, JNull, JNum(0), JStr(<<" ">>), JStr(<<" ", "T", " ">>)},
        c \in {Absent, JNull, JNum(5), JList(<<>>), JStr(<<" ", "plan">>)},
        d \in {Absent, JNull, JNum(2), JStr(<<"prd">>), JStr(<<" ", "prd", " ">>),
               JStr(<<"memo">>), JStr(<<"PRD">>)},
        e \in {Absent, JNum(1)}}

\* goals, step titles and outputs given to _likely_domain_drift
DriftArgs ==
    [goal : {<<>>, <<" ">>, <<"app">>, <<"fitness", " ", "app">>, GoalFit,
             <<"Mobile", " ", "Fitness", " ", "CRM">>, <<"fitness", " ", "fitness">>},
     title : {<<>>, TitlePlan, <<"mobile", " ", "fitness">>, <<"Fitness", " ", "tracker">>},
     content : {<<>>, OutGood, OutDrift, ContentModel, <<"mobile", " ", "stats">>,
                <<"Fitness", " ", "CRM">>, <<"three", " ", "fitness">>,
                <<"mobile", " ", "law", " ", "firms">>}]

\* step titles given to _clarify_title
ClarifyTitles ==
    {<<>>, <<" ">>, TitlePlan, TitleClarify, <<" ", "Plan", " ">>,
     <<"Clarify:", " ", "Plan">>, <<"CLARIFY:", " ", "Plan">>, <<"Clarify:">>,
     <<"Plan", " ", "Clarify:">>, <<" ", "Clarify:", " ", "Clarify:", " ", "Plan">>}

\* the first n of eight items
Items(n) == [i \in 1..n |-> <<"a1", "a2", "a3", "a4", "a5", "a6", "a7", "a8">>[i]]

\* arguments of _make_clarify_doc: the lists hold zero to eight strings
ClarifyArgs ==
    [step_title : {TitlePlan, TitleClarify},
     task_goal : {<<>>, <<" ">>, GoalFit, <<" ", "fitness", " ">>},
     assumptions : {[i \in 1..n |-> <<Items(n)[i]>>] : n \in 0..8},
     constraints : {[i \in 1..n |-> <<Items(n)[n + 1 - i]>>] : n \in 0..8}]

PureCalls ==
    {[fn |-> "_normalize_tool_name", arg |-> x] : x \in RawToolNames}
    \cup {[fn |-> "_ensure_doc_write_args_schema", arg |-> x] : x \in DocArgsShapes}
    \cup {[fn |-> "_likely_domain_drift", arg |-> x] : x \in DriftArgs}
    \cup {[fn |-> "_clarify_title", arg |-> x] : x \in ClarifyTitles}
    \cup {[fn |-> "_make_clarify_doc", arg |-> x] : x \in ClarifyArgs}
    \cup {[fn |-> "extract_json", arg |-> x] : x \in ExtractArgs}
    \cup {[fn |-> "_ensure_doc_write_args_schema", arg |-> x] : x \in DocArgs}
    \cup {[fn |-> "_clean_args_for_tool", arg |-> [tool |-> t, args |-> x]] :
            t \in ALLOWED_TOOLS, x \in CleanArgs}

PureReturns(fn, v) ==
    /\ fnCall.fn = fn
    /\ ~fnRet.done
    /\ fnRet' = [done |-> TRUE, val |-> v]
    /\ UNCHANGED <<fnCall, runVars, apiVars, runner>>

CallNormalizeToolName ==
    PureReturns("_normalize_tool_name", NormalizeToolName(fnCall.arg))

CallExtractJson ==
    PureReturns("extract_json", ExtractJson(ResponseText(fnCall.arg)))

CallEnsureDocWriteArgsSchema ==
    PureReturns("_ensure_doc_write_args_schema", EnsureDocWriteArgsSchema(fnCall.arg))

CallCleanArgsForTool ==
    PureReturns("_clean_args_for_tool", CleanArgsForTool(fnCall.arg.tool, fnCall.arg.args))

CallLikelyDomainDrift ==
    PureReturns("_likely_domain_drift",
                LikelyDomainDrift(fnCall.arg.goal, fnCall.arg.title, fnCall.arg.content))

CallClarifyTitle ==
    PureReturns("_clarify_title", ClarifyTitle(fnCall.arg))

CallMakeClarifyDoc ==
    PureReturns("_make_clarify_doc",
                MakeClarifyDoc(fnCall.arg.step_title, fnCall.arg.task_goal,
                               [i \in 1..Len(fnCall.arg.assumptions) |->
                                   JStr(fnCall.arg.assumptions[i])],
                               [i \in 1..Len(fnCall.arg.constraints) |->
                                   JStr(fnCall.arg.constraints[i])]))

PureInit ==
    /\ RunStepInit([provider |-> "mock", apiKey |-> FALSE, TOOLS |-> BothTools,
                    step_title |-> TitlePlan, memory |-> MemGoal])
    /\ ApiIdle
    /\ RunnerIdle
    /\ fnCall \in PureCalls
    /\ fnRet = NoRet

PureNext ==
    \/ CallNormalizeToolName
    \/ CallExtractJson
    \/ CallEnsureDocWriteArgsSchema
    \/ CallCleanArgsForTool
    \/ CallLikelyDomainDrift
    \/ CallClarifyTitle
    \/ CallMakeClarifyDoc

PureSpec == PureInit /\ [][PureNext]_vars

(* ------------------------------------------------------------------ *)
(* app/agent/runner.py: run_task_until_done                             *)
(* one call of the runner over the steps of one task; app.db.crud is    *)
(* not among the sources, its three functions are modelled by what      *)
(* their names and their use in the loop say                            *)
(* ------------------------------------------------------------------ *)
\* crud.get_next_pending_step: the pending step of lowest idx, 0 for None
GetNextPendingStep(st) ==
    IF \E i \in StepIdx : st[i].status = "pending"
    THEN SetMin({i \in StepIdx : st[i].status = "pending"})
    ELSE 0

\* crud.mark_step_done: the step's status becomes done
MarkStepDone(st, i) == [st EXCEPT ![i].status = "done"]

\* what run_step may return: a document, a clarify document, a metrics
\* object, the terminal error record
RunnerOutputs ==
    {JStr(<<"doc">>), JStr(<<"clarify">>), JDict([metrics |-> JList(<<>>)]),
     JDict([error |-> JStr(<<"tool failed">>)])}

\* the first n trace events of one run_step call for step i
StepEvents(i, n) == [k \in 1..n |-> [step |-> i, event_type |-> TraceOrder[k]]]

\* a result that counts one step too many
RunnerResultOneMore(outputs) ==
    [status |-> "completed", steps_executed |-> Len(outputs) + 1, outputs |-> outputs]

\* lines 32-36: the mapping the runner returns
RunnerResult(outputs) ==
    [status |-> "completed", steps_executed |-> Len(outputs), outputs |-> outputs]

\* lines 29-36: the next pending step is looked up; with none the runner returns
RunnerGetNext ==
    /\ runner.pc = "get_next"
    /\ LET i == GetNextPendingStep(steps)
       IN  runner' = IF i = 0
                     THEN [runner EXCEPT !.pc = "returned", !.step = 0,
                                         !.result = RunnerResult(runner.outputs)]
                     ELSE [runner EXCEPT !.pc = "load_memory", !.step = i]
    /\ UNCHANGED <<runVars, pureVars, apiVars>>

\* line 38: crud.load_memory reads the user's memory
RunnerLoadMemory ==
    /\ runner.pc = "load_memory"
    /\ runner' = [runner EXCEPT !.pc = "run_step"]
    /\ UNCHANGED <<runVars, pureVars, apiVars>>

\* lines 40-46: run_step returns its output; it has appended its trace
\* events, the reflection event unless the reflection failed
RunnerRunStepReturns ==
    /\ runner.pc = "run_step"
    /\ \E out \in RunnerOutputs : \E n \in {3, 4} :
         /\ traceRows' = traceRows \o StepEvents(runner.step, n)
         /\ runner' = [runner EXCEPT !.pc = "mark_done", !.output = out]
    /\ UNCHANGED <<runVars, pureVars, steps, decisionRows, taskStatus, reqs, crashed>>

\* lines 40-46: run_step raises (the decision call or a trace append
\* failed) and the exception leaves the runner
RunnerRunStepRaises ==
    /\ runner.pc = "run_step"
    /\ \E n \in 0..2 :
         traceRows' = traceRows \o StepEvents(runner.step, n)
    /\ runner' = [runner EXCEPT !.pc = "raised"]
    /\ UNCHANGED <<runVars, pureVars, steps, decisionRows, taskStatus, reqs, crashed>>

\* lines 48-52: the step is marked done and its output appended to outputs
RunnerMarkDone ==
    /\ runner.pc = "mark_done"
    /\ steps' = MarkStepDone(steps, runner.step)
    /\ runner' = [runner EXCEPT !.pc = "get_next",
                                !.outputs = Append(@, [step |-> runner.step,
                                                       output |-> runner.output])]
    /\ UNCHANGED <<runVars, pureVars, traceRows, decisionRows, taskStatus, reqs, crashed>>

\* the task's steps as a call of the runner may find them
RunnerInit ==
    /\ RunStepInit([provider |-> "mock", apiKey |-> FALSE, TOOLS |-> BothTools,
                    step_title |-> TitlePlan, memory |-> MemGoal])
    /\ PureIdle
    /\ steps \in [StepIdx -> [status : {"pending", "running", "done"}, result : {JNull}]]
    /\ traceRows = <<>>
    /\ decisionRows = <<>>
    /\ taskStatus = "active"
    /\ reqs = [r \in Requests |-> NoRequest]
    /\ crashed = FALSE
    /\ runner = [pc |-> "get_next", step |-> 0, output |-> JNull, outputs |-> <<>>,
                 result |-> JNull]

RunnerNext ==
    \/ RunnerGetNext
    \/ RunnerLoadMemory
    \/ RunnerRunStepReturns
    \/ RunnerRunStepRaises
    \/ RunnerMarkDone

\* the event loop goes on running the coroutine while it can take a step
RunnerSpec == RunnerInit /\ [][RunnerNext]_vars /\ WF_vars(RunnerNext)

(* ------------------------------------------------------------------ *)
(* Properties of run_step and llm_json                                 *)
(* ------------------------------------------------------------------ *)
\* run_step is past its retry loop
LoopOver == pc \in {"trace_llm", "call_reflect", "trace_reflection", "done"}

\* the shape of the record of line 434
IsErrorRecord(v) == IsDict(v) /\ DOMAIN v.dict = {"error", "details"}

\* the three texts a finished cascade of three stages has read
AllStagesUnparsable ==
    /\ pc = "llm_done"
    /\ stage = 3
    /\ lastHttp.kind = "ok"
    /\ ~StageParse(text).ok
    /\ ~StageParse(text2).ok
    /\ ~StageParse(text3).ok

\* C1: run_step never raises: whatever fails (the transport after its
\* retries, unparsable responses, an unregistered tool, a raising tool, the
\* reflection call, a trace append), the call ends by returning the pair.
C1_RunStepNeverRaises == pc # "raised" /\ raised = ""

\* C2: llm_json returns a mapping for every sequence of completion
\* responses: whenever it returns, the value is a JSON object, and it raises
\* only when no response arrived (never because a response did not parse).
C2_CascadeReturnsMapping ==
    pc = "llm_done" =>
        /\ llmResult.kind \in {"ret", "exc"}
        /\ llmResult.kind = "ret" => IsDict(llmResult.val)
        /\ llmResult.kind = "exc" => lastHttp.kind # "ok"

\* the first response was a JSON array, the cascade went on and returned
C2_Witness ==
    /\ pc = "llm_done"
    /\ llmResult.kind = "ret"
    /\ stage >= 2
    /\ text = <<"[", "]">>

\* C3: a round trip that fails at the transport level after its three
\* requests counts as a parse failure: llm_json goes on to the next stage or
\* to the hard default, it does not raise.
C3_ExhaustionIsParseFailure ==
    (pc = "llm_done" /\ reqAttempt = MaxHttpAttempts) => llmResult.kind = "ret"

\* C4: three consecutive unparsable responses end the cascade after exactly
\* three round trips, with the hard default (document tool, confidence 0);
\* there is never a fourth round trip.
C4_ThreeFailuresHardDefault ==
    /\ roundTrips <= 3
    /\ AllStagesUnparsable =>
         /\ roundTrips = 3
         /\ llmResult.kind = "ret"
         /\ llmResult.val = JDict(HardDefault)
         /\ llmResult.val.dict.tool = JStr(<<"doc_write">>)
         /\ llmResult.val.dict.confidence = JNum(0)

\* three unparsable responses of three kinds: no JSON, truncated, an array
C4_Witness ==
    /\ AllStagesUnparsable
    /\ llmCaller = "decision"
    /\ {text, text2, text3} = FailingResponses

\* C5: if the tool raises on attempt 1 and returns on attempt 2, the outcome
\* is not an error record; if it raises on both attempts the outcome is
\* exactly {error: "Tool execution failed after retry", details: e} with e
\* the text of the second exception.
C5_RetryOutcome ==
    (LoopOver /\ Len(toolCalls) = 2 /\ ~toolCalls[1].ok) =>
        IF toolCalls[2].ok
        THEN ~IsErrorRecord(output)
        ELSE \E e \in ToolErrorsAt(1) \cup {"TypeError"} :
               /\ output = JDict([error |-> JStr(<<"Tool execution failed after retry">>),
                                  details |-> JStr(<<e>>)])
               /\ (e = "TypeError") <=> ~BindOk(toolCalls[2].tool, toolCalls[2].args)

\* both attempts raised, the second with a text the first did not have
C5_Witness ==
    /\ pc = "done"
    /\ Len(toolCalls) = 2
    /\ ~toolCalls[1].ok
    /\ ~toolCalls[2].ok
    /\ output.dict.details = JStr(<<"E2">>)

\* C6: the tool is invoked at most twice in one run_step; attempt 2 happens
\* only if attempt 1 raised; nothing is invoked after a successful attempt or
\* after the failure of attempt 2.
C6_AtMostTwoInvocations ==
    /\ Len(toolCalls) <= 2
    /\ \A i \in 1..Len(toolCalls) :
         /\ toolCalls[i].attempt = i - 1
         /\ i < Len(toolCalls) => ~toolCalls[i].ok
    /\ (LoopOver \/ pc = "call_heal") => toolCalls # <<>>
    /\ pc = "tool_call" => Len(toolCalls) = attempt /\ attempt < 2

\* run_step returned after attempt 2 also raised
C6_Witness ==
    /\ pc = "done"
    /\ Len(toolCalls) = 2
    /\ ~toolCalls[2].ok

\* C7: after a successful document-tool call the clarify override happens iff
\* at least one of the three checks (placeholders, duplicate headers, domain
\* drift) is true for the tool's output; then the outcome is the clarify
\* document and the decision is the synthetic one (document tool, confidence
\* 100, args.content equal to the outcome, the reason listing the three truth
\* values); otherwise the outcome is the tool's return value.
C7_ClarifyOverride ==
    (LoopOver /\ toolCalls[Len(toolCalls)].ok /\ toolCalls[Len(toolCalls)].tool = "doc_write") =>
        /\ guardLog # <<>>
        /\ LET g == guardLog[Len(guardLog)].found
               out == guardLog[Len(guardLog)].tool_output
               bp == ContainsPlaceholders(PyStr(out))
               bd == DuplicateHeaders(PyStr(out))
               dr == LikelyDomainDrift(g.task_goal, step_title, PyStr(out))
           IN  IF bp \/ bd \/ dr
               THEN /\ output = JStr(MakeClarifyDoc(step_title, g.task_goal,
                                                    g.assumptions, g.constraints))
                    /\ final_decision.tool = JStr(<<"doc_write">>)
                    /\ final_decision.confidence = JNum(100)
                    /\ final_decision.args.dict.content = output
                    /\ final_decision.reason =
                         JStr(<<"bad_placeholders=", BoolTok(bp), ",", " ",
                                "bad_dup_headers=", BoolTok(bd), ",", " ",
                                "bad_domain_drift=", BoolTok(dr)>>)
               ELSE /\ output = out
                    /\ final_decision = decision

\* the document tool returned a text whose only fault is a repeated header
C7_Witness ==
    /\ pc = "done"
    /\ guardLog # <<>>
    /\ toolCalls[Len(toolCalls)].ok
    /\ toolCalls[Len(toolCalls)].tool = "doc_write"
    /\ guardLog[Len(guardLog)].tool_output = JStr(OutDup)
    /\ Get(final_decision, "confidence", JNull) = JNum(100)

\* C8: the guardrails are evaluated only after a document-tool attempt that
\* returned: never after a metrics call, never after an attempt that raised,
\* never once the outcome is the error record.
C8_GuardOnlyAfterDocSuccess ==
    /\ \A i \in 1..Len(guardLog) :
         \E j \in 1..Len(toolCalls) :
            /\ toolCalls[j].attempt = guardLog[i].attempt
            /\ toolCalls[j].ok
            /\ toolCalls[j].tool = "doc_write"
    /\ Len(guardLog) <= 1
    /\ (LoopOver /\ IsErrorRecord(output)) => guardLog = <<>>

\* attempt 1 raised, attempt 2 of the document tool returned and was checked
C8_Witness ==
    /\ pc = "done"
    /\ Len(toolCalls) = 2
    /\ Len(guardLog) = 1
    /\ guardLog[1].attempt = 1

\* C9: on every invocation of the document tool, attempt 1 or attempt 2 after
\* self-heal, if the enforced arguments' context.task_goal is empty then
\* content is the clarify document for the step title with an empty goal,
\* doc_type is generic and the title is the clarify-prefixed step title.
C9_EmptyGoalMeansClarify ==
    \A i \in 1..Len(toolCalls) :
       LET a == toolCalls[i].args
       IN  (/\ toolCalls[i].tool = "doc_write"
            /\ "context" \in DOMAIN a
            /\ IsDict(a.context)
            /\ ExtractGoalFromContext(a.context.dict) = <<>>) =>
               /\ a.content = JStr(MakeClarifyDoc(step_title, <<>>,
                                      Get(a.context.dict, "assumptions", JList(<<>>)).list,
                                      Get(a.context.dict, "constraints", JList(<<>>)).list))
               /\ a.doc_type = JStr(<<"generic">>)
               /\ a.title = JStr(ClarifyTitle(step_title))

\* C10: the metrics tool is never invoked, on attempt 1 or attempt 2, with a
\* missing or empty task_goal.
C10_MetricsNeedsGoal ==
    \A i \in 1..Len(toolCalls) :
       toolCalls[i].tool = "metrics_generate" =>
          /\ "task_goal" \in DOMAIN toolCalls[i].args
          /\ Truthy(toolCalls[i].args.task_goal)

\* C11: if the self-heal round trip fails, by transport failure or because
\* none of the self-heal responses parses, attempt 2 still takes place and
\* invokes the tool with exactly the cleaned arguments of attempt 1.
C11_HealFailureKeepsArgs ==
    [][(/\ pc = "llm_done"
        /\ llmCaller = "heal"
        /\ (llmResult.kind = "exc" \/ AllStagesUnparsable)) =>
           (/\ pc' = "tool_call"
            /\ attempt' = 1
            /\ clean_args' = clean_args)]_vars

\* run_step is in its reflection block (lines 438-456)
InReflection == pc \in {"call_reflect", "trace_reflection"} \/ llmCaller = "reflect"

\* C12: once the outcome is final, run_step makes one reflection call; if
\* that call or the append of its trace event fails, the failure is
\* swallowed: run_step returns, and the outcome and the final decision are
\* what they were before the reflection, as when the reflection succeeds.
C12_ReflectionNeverMatters ==
    [][InReflection =>
         /\ output' = output
         /\ final_decision' = final_decision
         /\ pc' # "raised"
         /\ raised' = ""
         /\ pc' \notin {"call_heal", "tool_call", "trace_llm", "call_decision"}
         /\ (pc = "llm_done" => pc' \in {"trace_reflection", "done"})
         /\ (pc = "trace_reflection" => pc' = "done")]_vars

\* run_step returned an outcome without a reflection event in the trace
C12_Witness ==
    /\ pc = "done"
    /\ output # JNull
    /\ traceLog # <<>>
    /\ traceLog[Len(traceLog)].event_type = "llm"

DecidedTool == NormalizeToolName(Get(decision, "tool", JStr(<<"doc_write">>)))

\* C14: if the normalized tool name does not resolve in the registry,
\* run_step falls back to the document tool with empty arguments: the tool
\* invoked is the document tool, none of the decision's arguments reach it,
\* and (the goal being empty) its content is the clarify document for the
\* step title.
C14_UnknownToolFallsBack ==
    (toolCalls # <<>> /\ DecidedTool \notin TOOLS) =>
        /\ toolCalls[1].tool = "doc_write"
        /\ toolCalls[1].args =
             [title |-> JStr(ClarifyTitle(step_title)),
              content |-> JStr(MakeClarifyDoc(step_title, <<>>, <<>>, <<>>)),
              doc_type |-> JStr(<<"generic">>),
              context |-> JDict([task_goal |-> JStr(<<>>),
                                 assumptions |-> JList(<<>>),
                                 constraints |-> JList(<<>>)])]

\* the decision named the metrics tool with a goal in its arguments, the
\* registry holds the document tool only, and the tool was invoked
C14_Witness ==
    /\ toolCalls # <<>>
    /\ DecidedTool = "metrics_generate"
    /\ DecidedTool \notin TOOLS
    /\ decision.args = Members("metctx").args

\* run_step is past its loop and the last attempt was a document-tool call
\* that returned
DocReturned ==
    /\ LoopOver
    /\ toolCalls[Len(toolCalls)].ok
    /\ toolCalls[Len(toolCalls)].tool = "doc_write"

\* the text the document tool returned (out_text, line 363)
ToolText == PyStr(guardLog[Len(guardLog)].tool_output)

\* the goal in the context of the arguments the document tool was called with
CallGoal ==
    LET c == Get(toolCalls[Len(toolCalls)].args, "context", JNull)
    IN  IF IsDict(c) THEN ExtractGoalFromContext(c.dict) ELSE <<>>

\* the outcome is a clarify document for the step title
IsClarifyOutcome ==
    /\ IsStr(output)
    /\ \E g \in {guardLog[i].found : i \in 1..Len(guardLog)} :
         output.str = MakeClarifyDoc(step_title, g.task_goal, g.assumptions, g.constraints)

\* the reason of the final decision holds "key=True"
ReasonSaysTrue(key) ==
    LET r == PyStr(Get(final_decision, "reason", JStr(<<>>)))
    IN  \E i \in 1..(Len(r) - 1) : r[i] = key /\ r[i + 1] = "True"

\* C15: whenever a document-tool call made with a non-empty goal returns a
\* text that holds the token tbd, in any letter case, the final outcome is a
\* clarify document and the final decision's reason holds
\* bad_placeholders=True.
C15_TbdForcesClarify ==
    (/\ DocReturned
     /\ CallGoal # <<>>
     /\ \E i \in 1..Len(ToolText) : ToolText[i] \in {"tbd", "Tbd", "TBD"}) =>
        /\ IsClarifyOutcome
        /\ ReasonSaysTrue("bad_placeholders=")

\* the document tool, called with the goal, returned the text ending in Tbd
C15_Witness ==
    /\ pc = "done"
    /\ DocReturned
    /\ CallGoal = GoalFit
    /\ ToolText = OutTbd

\* C16: whenever a keyword of the fixed unrelated-industry list (such as
\* e-commerce) occurs in the document tool's output but not in the non-empty
\* goal the call was made with (such as mobile fitness app), drift detection
\* fires and the final outcome is a clarify document.
C16_DriftKeywordForcesClarify ==
    (/\ DocReturned
     /\ CallGoal # <<>>
     /\ \E tok \in DRIFT_TOKENS :
          KeyIn(tok, Lower(ToolText)) /\ ~KeyIn(tok, Lower(CallGoal))) =>
        /\ IsClarifyOutcome
        /\ ReasonSaysTrue("bad_domain_drift=")

\* C17: if the document tool's output holds the same second-level header
\* line (for example "## Integration") twice, duplicate-header detection
\* fires and forces the clarify override, whether or not the placeholder
\* check and the drift check fire.
C17_DuplicateHeaderForcesClarify ==
    (/\ DocReturned
     /\ LET ls == SplitLines(ToolText)
        IN  \E i \in 1..Len(ls) : \E j \in 1..Len(ls) :
              /\ i < j
              /\ Strip(ls[i]) = Strip(ls[j])
              /\ Len(Strip(ls[i])) >= 2
              /\ Strip(ls[i])[1] = "##"
              /\ Strip(ls[i])[2] = " ") =>
        /\ IsClarifyOutcome
        /\ ReasonSaysTrue("bad_dup_headers=")
        /\ Get(final_decision, "confidence", JNull) = JNum(100)

\* the returned text repeats "## Integration" and also holds a placeholder
C17_Witness ==
    /\ pc = "done"
    /\ DocReturned
    /\ ToolText = OutDupTbd
    /\ ReasonSaysTrue("bad_placeholders=")

\* C18: when run_step returns, the outcome is exactly one of: the value the
\* successful tool attempt returned, the clarify document a guardrail put in
\* its place, or the error record {error, details}; it is never left unset,
\* and it is the error record if and only if both tool attempts raised.
C18_ExactlyOneOutcome ==
    pc = "done" =>
       LET n == Len(toolCalls)
           last == toolCalls[n]
           bothRaised == n = 2 /\ ~toolCalls[1].ok /\ ~toolCalls[2].ok
       IN  /\ n >= 1
           /\ output # JNull
           /\ IsErrorRecord(output) <=> bothRaised
           /\ bothRaised \/ last.ok
           /\ (last.ok /\ last.tool = "metrics_generate") =>
                 output = MetricsGenerate(last.args)
           /\ (last.ok /\ last.tool = "doc_write") =>
                 /\ guardLog # <<>>
                 /\ \/ /\ output = guardLog[Len(guardLog)].tool_output
                       /\ final_decision = decision
                    \/ /\ final_decision # decision
                       /\ IsClarifyOutcome

\* run_step returned the error record
C18_Witness ==
    /\ pc = "done"
    /\ IsErrorRecord(output)
    /\ Len(toolCalls) = 2

\* C19: the final_decision run_step returns always has a tool field that
\* resolves in the registry (one of the known tool names), whatever tool
\* value the response of the model held.
C19_FinalDecisionToolResolves ==
    pc = "done" =>
       /\ "tool" \in DOMAIN final_decision
       /\ IsStr(final_decision.tool)
       /\ Len(final_decision.tool.str) = 1
       /\ final_decision.tool.str[1] \in TOOLS

\* C20: run_step never mutates the memory snapshot it is given: on every
\* path (success, self-heal, guardrail override, pre-flight clarify,
\* terminal error) no step of run_step changes it.
C20_MemoryReadOnly == [][memory' = memory]_vars

\* run_step returned after the metrics arguments were grounded to the
\* snapshot's goal
C20_Witness ==
    /\ pc = "done"
    /\ toolCalls[1].tool = "metrics_generate"
    /\ "task_goal" \in DOMAIN toolCalls[1].args
    /\ toolCalls[1].args.task_goal = memory.task_goal

\* the types of the events appended so far
TraceTypes == [i \in 1..Len(traceLog) |-> traceLog[i].event_type]

\* C21: during one run_step the trace events are appended in the order
\* decision, tool, llm, reflection: one decision event, then one tool event,
\* then, after all tool attempts and any guardrail override, one llm event
\* that carries the final outcome, then at most one reflection event; an
\* event once appended is never changed or removed.
C21_TraceOrder ==
    /\ [](/\ Len(traceLog) <= 4
          /\ \A i \in 1..Len(traceLog) : TraceTypes[i] = TraceOrder[i]
          /\ (toolCalls # <<>> => Len(traceLog) >= 2)
          /\ (Len(traceLog) >= 3 =>
                traceLog[3].payload = JDict([tool_output |-> output]))
          /\ (pc = "done" => Len(traceLog) >= 3))
    /\ [][/\ Len(traceLog') >= Len(traceLog)
          /\ SubSeq(traceLog', 1, Len(traceLog)) = traceLog
          /\ (Len(traceLog) >= 3 =>
                /\ toolCalls' = toolCalls
                /\ guardLog' = guardLog
                /\ output' = output
                /\ final_decision' = final_decision)]_vars

\* run_step returned after a guardrail override, with all four events
C21_Witness ==
    /\ pc = "done"
    /\ Len(traceLog) = 4
    /\ final_decision # decision
    /\ traceLog[3].payload = JDict([tool_output |-> output])

\* the Decision row of the step the request is serving is in the store
DecisionStored(r) ==
    \E k \in 1..Len(decisionRows) :
        decisionRows[k] = [step |-> reqs[r].pending, req |-> r]

\* the process crashes in this step
Crashes == ~crashed /\ crashed'

\* C22: the steps of one task are strictly sequential under any interleaving
\* of step requests: at no time are two step executions of the task in
\* progress (so no step is executed by two overlapping requests), and while a
\* step is executed every step of lower index is done.
C22_StrictlySequential ==
    /\ Cardinality({r \in Requests : Executing(r)}) <= 1
    /\ \A r \in Requests :
         Executing(r) =>
            \A j \in StepIdx : j < reqs[r].pending => steps[j].status = "done"

C24_NonTransientFailsAtOnce ==
    [][(reqAttempt' = reqAttempt + 1 /\ lastHttp'.kind = "error") =>
         /\ sleeps' = sleeps
         /\ llmResult' = Raised
         /\ pc' = "llm_done"]_vars

\* C25: one round trip sends at most 3 HTTP requests; the failure of
\* request k is followed by a backoff of 0.6 * 2^(k-1) seconds (0.6, then
\* 1.2) before request k+1 is sent; the round trip fails once the third
\* request has failed.
C25_ThreeRequestsWithBackoff ==
    /\ reqAttempt <= 3
    /\ Len(sleeps) = reqAttempt
    /\ (pc = "http" => reqAttempt <= 2)
    /\ \A k \in 1..Len(sleeps) : sleeps[k] = <<600, 1200, 2400>>[k]
    /\ (reqAttempt = 3 => pc = "llm_done" /\ llmResult = Raised)

\* the third request of a round trip failed with a transient status
C25_Witness ==
    /\ reqAttempt = 3
    /\ lastHttp.kind = "transient"
    /\ llmResult = Raised
    /\ sleeps[1] = 600
    /\ sleeps[2] = 1200

\* the helper was called and has returned
Called(fn) == fnCall.fn = fn /\ fnRet.done

\* C26: for every response made of prose, then one JSON object, then prose,
\* extract_json returns exactly the embedded object (so that the first
\* stage of the cascade returns it and no repair round trip is made). Prose
\* is any text that is not itself a JSON value.
C26_ExtractsEmbeddedObject ==
    (/\ Called("extract_json")
     /\ ~JsonLoads(fnCall.arg.pre).ok
     /\ ~JsonLoads(fnCall.arg.post).ok) =>
        fnRet.val = ParseOk(JDict(Members(fnCall.arg.body)))

\* C27: for every raw tool identifier _normalize_tool_name returns a known
\* tool name: the document tool for a value that is no string; for a string,
\* its part before the first | or , with blanks stripped if that is a known
\* tool, else the document tool; and a returned name normalises to itself.
C27_NormalizeToolName ==
    Called("_normalize_tool_name") =>
        /\ fnRet.val \in ALLOWED_TOOLS
        /\ (~IsStr(fnCall.arg) => fnRet.val = "doc_write")
        /\ (IsStr(fnCall.arg) =>
              LET s == fnCall.arg.str
                  seps == {i \in 1..Len(s) : s[i] \in {"|", ","}}
                  seg == Strip(IF seps = {} THEN s ELSE SubSeq(s, 1, SetMin(seps) - 1))
              IN  fnRet.val = IF Len(seg) = 1 /\ seg[1] \in ALLOWED_TOOLS
                              THEN seg[1] ELSE "doc_write")
        /\ NormalizeToolName(JStr(<<fnRet.val>>)) = fnRet.val

\* a string with both separators whose first segment is the metrics tool
C27_Witness ==
    /\ Called("_normalize_tool_name")
    /\ fnCall.arg = JStr(<<"metrics_generate", ",", "doc_write">>)
    /\ fnRet.val = "metrics_generate"

\* C28: for every argument mapping given to _ensure_doc_write_args_schema
\* (context missing, null or no mapping; assumptions and constraints
\* missing, null or no list; a goal that is no string) the result's context
\* holds exactly task_goal, a string, and assumptions and constraints, lists
\* of non-empty strings; none of the three is null.
C28_SchemaEnforced ==
    Called("_ensure_doc_write_args_schema") =>
        LET c == fnRet.val.context IN
        /\ IsDict(c)
        /\ DOMAIN c.dict = {"task_goal", "assumptions", "constraints"}
        /\ IsStr(c.dict.task_goal)
        /\ \A k \in {"assumptions", "constraints"} :
             /\ IsList(c.dict[k])
             /\ \A i \in 1..Len(c.dict[k].list) :
                  IsStr(c.dict[k].list[i]) /\ c.dict[k].list[i].str # <<>>

\* a context with a numeric goal, a list of mixed items and a null list
C28_Witness ==
    /\ Called("_ensure_doc_write_args_schema")
    /\ "context" \in DOMAIN fnCall.arg
    /\ IsDict(fnCall.arg.context)
    /\ DOMAIN fnCall.arg.context.dict = {"task_goal", "assumptions", "constraints"}
    /\ fnCall.arg.context.dict.task_goal = JNum(3)
    /\ IsList(fnCall.arg.context.dict.assumptions)
    /\ Len(fnCall.arg.context.dict.assumptions.list) = 7
    /\ IsNull(fnCall.arg.context.dict.constraints)
    /\ fnRet.val.context.dict.task_goal = JStr(<<"3">>)
    /\ Len(fnRet.val.context.dict.assumptions.list) = 5
    /\ fnRet.val.context.dict.constraints = JList(<<>>)

\* C29: _clean_args_for_tool on a mapping returns exactly the entries whose
\* key is a declared parameter name of the tool, and the mapping unchanged
\* for a tool that declares no named parameter, as the metrics tool, which
\* is declared with **kwargs only; a value that is no mapping becomes
\* {title: "Output", content: str(value)}.
C29_CleanArgs ==
    Called("_clean_args_for_tool") =>
        LET a == fnCall.arg.args
            named == IF fnCall.arg.tool = "doc_write"
                     THEN {"title", "content", "doc_type", "context"}
                     ELSE {}
        IN  fnRet.val =
              IF ~IsDict(a)
              THEN [title |-> JStr(<<"Output">>), content |-> JStr(PyStr(a))]
              ELSE IF named = {} THEN a.dict
              ELSE [k \in (DOMAIN a.dict) \cap named |-> a.dict[k]]

\* the text parses, and to a mapping
ParsesToMapping(t) == ExtractJson(t).ok /\ IsDict(ExtractJson(t).val)

\* the response of the stage llm_json is in
StageText == CASE stage = 1 -> text [] stage = 2 -> text2 [] stage = 3 -> text3

\* C30: the cascade returns the mapping parsed at the first stage whose
\* response parses to a mapping, with no round trip after it; a response
\* that parses to a JSON value that is no mapping fails its stage; stage 2
\* is sent the raw response of stage 1, and stage 3 runs only after stage 2
\* failed (and is sent the response of stage 2).
C30_FirstParsingStage ==
    (stage >= 1 /\ apiKey) =>
        /\ roundTrips = stage
        /\ (stage >= 2 => ~ParsesToMapping(text))
        /\ (stage = 2 => prompt = [kind |-> "repair", text |-> text])
        /\ (stage = 3 => ~ParsesToMapping(text2) /\ prompt = [kind |-> "schema", text |-> text2])
        /\ ((pc = "llm_done" /\ llmResult.kind = "ret") =>
              IF ParsesToMapping(StageText)
              THEN llmResult.val = ExtractJson(StageText).val
              ELSE stage = 3 /\ llmResult.val = JDict(HardDefault))

\* stage 1 answered with an array, stage 2 with an object, which is returned
C30_Witness ==
    /\ pc = "llm_done"
    /\ stage = 2
    /\ text = <<"[", "]">>
    /\ ExtractJson(text).ok
    /\ llmResult = Returned(ExtractJson(text2).val)
    /\ roundTrips = 2

\* what the drift rule gives for a goal that is not to be skipped: the
\* keyword test, then the goal without words, then the two overlaps
DriftRule(a) ==
    LET goal == Lower(a.goal)
        out == Lower(a.content)
        gw == WordsOf(goal)
        ow == WordsOf(out)
        tw == WordsOf(Lower(a.title))
    IN  IF \E tok \in DRIFT_TOKENS : KeyIn(tok, out) /\ ~KeyIn(tok, goal) THEN TRUE
        ELSE IF gw = {} THEN TRUE
        ELSE IF Cardinality(gw \cap ow) < 2 THEN Cardinality(gw \cap (ow \cup tw)) < 2
        ELSE FALSE

C32_ThinGoalForcesClarify ==
    (/\ DocReturned
     /\ CallGoal # <<>>
     /\ Cardinality(WordsOf(Lower(CallGoal))) < MinOverlap) =>
        /\ IsClarifyOutcome
        /\ ReasonSaysTrue("bad_domain_drift=")

\* goal, assumptions and constraints held by the context of the i-th tool call
CallContext(i) ==
    LET c == Get(toolCalls[i].args, "context", JNull)
        ctx == IF IsDict(c) THEN c.dict ELSE EmptyDict
        a0 == Get(ctx, "assumptions", JList(<<>>))
        k0 == Get(ctx, "constraints", JList(<<>>))
    IN  [task_goal |-> ExtractGoalFromContext(ctx),
         assumptions |-> SelectStr(IF IsList(a0) THEN a0.list ELSE <<>>),
         constraints |-> SelectStr(IF IsList(k0) THEN k0.list ELSE <<>>)]

\* C33: after a self-heal, the guardrail evaluation of attempt 2 (loop index 1)
\* reads the goal, assumptions and constraints of the arguments of attempt 1,
\* and the clarify document and synthetic decision it produces are built from
\* them, whatever context the healed arguments of attempt 2 carry.
C33_GuardrailsReadPreHealContext ==
    \A i \in 1..Len(guardLog) :
      guardLog[i].attempt = 1 =>
        LET g == guardLog[i].found
            pre == CallContext(1)
        IN  /\ g.task_goal = pre.task_goal
            /\ g.assumptions = pre.assumptions
            /\ g.constraints = pre.constraints
            /\ (LoopOver /\ GuardFires(g)) =>
                 /\ output = JStr(MakeClarifyDoc(step_title, pre.task_goal,
                                                 pre.assumptions, pre.constraints))
                 /\ final_decision.args.dict.context =
                      JDict([task_goal |-> JStr(pre.task_goal),
                             assumptions |-> JList(pre.assumptions),
                             constraints |-> JList(pre.constraints)])

C33_Witness ==
    /\ LoopOver
    /\ Len(toolCalls) = 2
    /\ guardLog # <<>>
    /\ guardLog[Len(guardLog)].attempt = 1
    /\ GuardFires(guardLog[Len(guardLog)].found)
    /\ CallContext(1).task_goal = GoalFit
    /\ CallContext(2).task_goal = GoalThin
    /\ CallContext(2).assumptions # CallContext(1).assumptions

\* some guardrail evaluation of the run fired a check
GuardOverrode == \E i \in 1..Len(guardLog) : GuardFires(guardLog[i].found)

\* C34: when the run is over and no guardrail override occurred (document
\* success with no check firing, metrics success, pre-flight clarify
\* substitution, terminal error record), final_decision is the decision
\* mapping of the cascade with no field changed, even when normalization,
\* registry fallback or the pre-flight redirect changed what was executed.
C34_FinalDecisionIsDecision ==
    (LoopOver /\ ~GuardOverrode) => final_decision = decision

C34_Witness ==
    /\ pc = "done"
    /\ ~GuardOverrode
    /\ toolCalls[Len(toolCalls)].ok
    /\ toolCalls[Len(toolCalls)].tool = "doc_write"
    /\ "tool" \in DOMAIN decision
    /\ decision.tool = JStr(<<"metrics_generate">>)
    /\ final_decision = decision

\* the doc_type the enforcer is asked for: the stripped text of a truthy
\* value, "generic" otherwise
AskedDocType(args) ==
    LET d == Strip(PyStr(PyOr(Get(args, "doc_type", JNull), JStr(<<"generic">>))))
    IN  IF d = <<>> THEN <<"generic">> ELSE d

\* C35: for every argument mapping, _ensure_doc_write_args_schema returns a
\* mapping with exactly the keys title, content, doc_type and context (other
\* keys dropped), a non-empty title, a string content and a doc_type of the
\* fixed set (the one asked for when it is in the set, else "generic"), and
\* enforcing the result again returns the same mapping.
C35_EnforcerShapeAndIdempotence ==
    Called("_ensure_doc_write_args_schema") =>
        LET r == fnRet.val
            asked == AskedDocType(fnCall.arg)
        IN  /\ DOMAIN r = {"title", "content", "doc_type", "context"}
            /\ IsStr(r.title) /\ r.title.str # <<>>
            /\ IsStr(r.content)
            /\ IsStr(r.doc_type)
            /\ Len(r.doc_type.str) = 1 /\ r.doc_type.str[1] \in ALLOWED_DOC_TYPES
            /\ r.doc_type.str = IF Len(asked) = 1 /\ asked[1] \in ALLOWED_DOC_TYPES
                                THEN asked ELSE <<"generic">>
            /\ EnsureDocWriteArgsSchema(r) = r

\* a blank title, a numeric content, an unknown doc_type and an extra key
C35_Witness ==
    /\ Called("_ensure_doc_write_args_schema")
    /\ fnCall.arg = MkDict([title |-> JStr(<<" ">>), content |-> JNum(5),
                            doc_type |-> JStr(<<"memo">>), extra |-> JNum(1)])
    /\ fnRet.val.title = JStr(<<"Document">>)
    /\ fnRet.val.doc_type = JStr(<<"generic">>)

\* text starts with "Clarify: "
HasClarifyPrefix(s) == Len(s) >= 2 /\ s[1] = "Clarify:" /\ s[2] = " "

\* C36: for every step title, _clarify_title returns a text that starts with
\* "Clarify: ", leaves a title that already carries the prefix as it is, and
\* gives the same result when applied to its own result.
C36_ClarifyTitleIdempotent ==
    Called("_clarify_title") =>
        /\ HasClarifyPrefix(fnRet.val)
        /\ HasClarifyPrefix(fnCall.arg) => fnRet.val = fnCall.arg
        /\ ClarifyTitle(fnRet.val) = fnRet.val

\* the lines of a bullet list of at most ClarifyCap items, as the document shows it
ShownItems(items) ==
    IF items = <<>> THEN <<(<<"-", " ", "(not provided)">>)>>
    ELSE [i \in 1..(IF Len(items) < 6 THEN Len(items) ELSE 6) |-> <<"-", " ">> \o items[i]]

\* C37: for every (step title, goal, assumptions, constraints) the clarify
\* document shows the stripped goal, or "(missing)" when the goal is empty or
\* blank, then the first 6 assumptions at most and the first 6 constraints at
\* most, each in the given order (or "- (not provided)"), and ends with the
\* same 6 question lines.
C37_ClarifyDocument ==
    Called("_make_clarify_doc") =>
        LET ls == SplitLines(fnRet.val)
            a == ShownItems(fnCall.arg.assumptions)
            c == ShownItems(fnCall.arg.constraints)
            goal == IF Strip(fnCall.arg.task_goal) = <<>> THEN <<"(missing)">>
                    ELSE Strip(fnCall.arg.task_goal)
            q == Len(ls) - 6
        IN  /\ Len(ls) = 5 + Len(a) + 1 + Len(c) + 4 + 1 + 6
            /\ ls[3] = <<"##", " ", "Context">>
            /\ ls[4] = <<"-", " ", "**task_goal:**", " ">> \o goal
            /\ ls[5] = <<"-", " ", "**assumptions:**">>
            /\ SubSeq(ls, 6, 5 + Len(a)) = a
            /\ ls[6 + Len(a)] = <<"-", " ", "**constraints:**">>
            /\ SubSeq(ls, 7 + Len(a), 6 + Len(a) + Len(c)) = c
            /\ ls[q] = <<"##", " ", "Questions">>
            /\ \A i \in 1..6 : ls[q + i] = <<"-", " ", Questions[i]>>

\* eight assumptions and seven constraints, a blank goal
C37_Witness ==
    /\ Called("_make_clarify_doc")
    /\ Len(fnCall.arg.assumptions) = 8
    /\ Len(fnCall.arg.constraints) = 7
    /\ fnCall.arg.task_goal = <<" ">>
    /\ \E i \in 1..Len(fnRet.val) : fnRet.val[i] = "(missing)"
    /\ \E i \in 1..Len(fnRet.val) : fnRet.val[i] = "a6"
    /\ \A i \in 1..Len(fnRet.val) : fnRet.val[i] # "a8"

\* place of a status in the order pending, running, done
StatusRank(s) == CASE s = "pending" -> 0 [] s = "running" -> 1 [] s = "done" -> 2 [] OTHER -> 3

\* C38: in the step endpoint a step's status only moves forward (pending,
\* running, done) and never back, no step is ever set to failed, a request
\* that leaves api_step after its run_step returned has set its step done,
\* and the task is set done only when no step is pending or running.
C38_StatusOnlyForward ==
    [][/\ \A i \in StepIdx :
            /\ StatusRank(steps'[i].status) >= StatusRank(steps[i].status)
            /\ steps'[i].status \in {"pending", "running", "done"}
       /\ \A r \in Requests :
            (reqs[r].pc = "update_done" /\ reqs'[r].pc = "returned") =>
                steps'[reqs[r].pending].status = "done"
       /\ (taskStatus' = "done" /\ taskStatus # "done") =>
            \A i \in StepIdx : steps[i].status = "done"]_vars

\* run_step calls of which the runner has the output: the decision events stored
RunStepCalls == Cardinality({k \in 1..Len(traceRows) : traceRows[k].event_type = "decision"})

====
